---- MODULE Spec2Model ----
(***************************************************************************)
(* Model of the robun agent runtime: the MessageBus, the AgentLoop, the    *)
(* SessionManager, the MessageTool and the SubagentManager.  JavaScript    *)
(* runs one callback at a time, so every action below is one synchronous   *)
(* stretch of code between two awaits.                                     *)
(***************************************************************************)
EXTENDS Integers, Sequences, FiniteSets, TLC

\* ---------------------------------------------------------------- bounds
MaxInbound == 2        \* inbound events published in one run
MaxOutbound == 2       \* outbound events published directly on the bus
MaxSubscribers == 2    \* subscribeOutbound registrations in one run
MaxDirect == 1         \* processDirect calls in one run
MaxSessions == 4       \* Session objects alive at the same time
MaxIterations == 1     \* configured maxIterations of the agent runtime
MaxLoopIterations == 4 \* largest maxIterations a tool loop is checked with
MemoryWindow == 4      \* configured memoryWindow
MaxStored == 2         \* messages of a session given at the start
MaxSpawn == 1          \* SubagentManager.spawn calls in one run
MaxToolCalls == 3      \* ToolRegistry.execute calls in one run
MaxTime == 3           \* the clock stops here
MaxJobs == 2           \* cron jobs ever added
MaxThreads == 2        \* onTimer and runJob calls in flight at once
MaxCronCalls == 2      \* calls of CronService's public methods in one run
MaxHbCalls == 3        \* calls of HeartbeatService's start and stop in one run
IntervalS == 1         \* the interval of the heartbeat, in time units
AtMs == 2              \* the time of the `at` schedules
EveryMs == 1           \* the interval of the `every` schedules

Null == "null"

Consumers == {"loop", "c1", "c2"}
Channels == {"tg", "cli"}
Handlers == 1..MaxSubscribers

\* A chat id or session key is a sequence of tokens; ":" is a token of its own.
\* inbound events the producers (channel adapters, sub-agents) may publish
InboundInputs ==
  { [channel |-> "tg", senderId |-> "u", chatId |-> <<"1">>, content |-> c] :
        c \in {"hello", " /New ", "/help"} }
  \cup { [channel |-> "system", senderId |-> "subagent",
          chatId |-> <<"tg", ":", "1">>, content |-> "announce"] }

VARIABLES
  \* ---- MessageBus fields
  inboundQueue,        \* InboundMessage[]
  outboundQueue,       \* OutboundMessage[]
  inboundWaiters,      \* pending wrappedResolve closures, named by their caller
  outboundSubscribers, \* Map<channel, OutboundSubscriber[]>
  busRunning,          \* MessageBus.running
  \* ---- callers of the bus
  consumers,           \* per consumer: state of its consumeInbound promise
  activeConsumers,     \* the consumers that exist in this run
  dispatcher,          \* position of dispatchOutbound()
  \* ---- history of the run (what was published / returned / invoked)
  pubIn, returned, pubOut, invoked, threw,
  \* ---- AgentLoop fields
  agentRunning,        \* AgentLoop.running
  maxIterations,       \* AgentLoop.maxIterations
  memoryWindow,        \* AgentLoop.memoryWindow
  runPc,               \* position of AgentLoop.run()
  turns,               \* per caller: the processMessage invocation in progress
  consol,              \* consolidateMemory calls awaiting their LLM answer
  nDirect,             \* processDirect calls made so far
  \* ---- MessageTool fields
  toolContext,         \* defaultChannel / defaultChatId
  \* ---- SessionManager and MemoryStore
  sessObjs,            \* the Session objects alive in memory
  sessCache,           \* SessionManager.cache
  sessDisk,            \* the .jsonl files of the sessions directory
  historyMd, memoryMd, \* HISTORY.md and MEMORY.md
  \* ---- the LLM provider
  providerAnswers,     \* the answers provider.chat can give in this run
  subAnswers,          \* the answers it can give a sub-agent in this run
  \* ---- SubagentManager
  subTasks,            \* per task id: the runSubagent invocation
  runningTasks,        \* SubagentManager.runningTasks (its keys)
  \* ---- the tools (ToolRegistry, EditFileTool, ExecTool)
  files,               \* the files of the workspace, path -> content
  shells,              \* the shell processes started by Bun.spawn
  toolCall,            \* the last ToolRegistry.execute call and its outcome
  restrictToWorkspace, \* config.tools.restrictToWorkspace
  \* ---- CronService
  clock,               \* Date.now()
  cronRunning,         \* CronService.running
  cronStore,           \* CronService.store: the ids of store.jobs, in order
  cronJobs,            \* the CronJob objects, by id
  cronTimer,           \* CronService.timer
  cronThreads,         \* the onTimer and runJob calls that await onJob
  cronDisk,            \* the store file
  cronCalls,           \* calls of the public methods so far
  onJobCalls,          \* per job: the onJob calls made by onTimer and by
                       \* runJob, and how many of them threw
  listed,              \* what the last listJobs call returned
  cronReturned,        \* what the step just taken returned, for runJob and status
  \* ---- HeartbeatService
  hbEnabled,           \* HeartbeatService.enabled
  hbHandler,           \* whether onHeartbeat was given
  hbRunning,           \* HeartbeatService.running
  hbTimer,             \* HeartbeatService.timer: a timeout handle, or 0 for null
  hbTimeouts,          \* the timeouts of setTimeout that have not expired
  hbAwaiting,          \* the tick calls that await onHeartbeat
  hbFile,              \* HEARTBEAT.md
  hbCalls,             \* calls of start and stop so far
  hbLast               \* what the tick that ran last did

busVars == <<inboundQueue, outboundQueue, inboundWaiters, outboundSubscribers,
             busRunning, consumers, activeConsumers, dispatcher,
             pubIn, returned, pubOut, invoked, threw>>

agentVars == <<agentRunning, maxIterations, memoryWindow, runPc, turns, consol,
               nDirect, toolContext, sessObjs, sessCache, sessDisk, historyMd,
               memoryMd, providerAnswers, subAnswers>>

subVars == <<subTasks, runningTasks>>

toolVars == <<files, shells, toolCall, restrictToWorkspace>>

cronVars == <<clock, cronRunning, cronStore, cronJobs, cronTimer, cronThreads,
              cronDisk, cronCalls, onJobCalls, listed,
                 cronReturned>>

hbVars == <<hbEnabled, hbHandler, hbRunning, hbTimer, hbTimeouts, hbAwaiting,
            hbFile, hbCalls, hbLast>>

sideVars == <<toolVars, cronVars, hbVars>>

nonBusVars == <<agentVars, subVars, sideVars>>

vars == <<busVars, agentVars, subVars, sideVars>>

\* ------------------------------------------------------------- helpers
Range(s) == { s[i] : i \in 1..Len(s) }

RECURSIVE IndexOf(_, _, _)
\* Array.indexOf: 1-based position of x in s at or after i, 0 when absent
IndexOf(s, x, i) ==
  IF i > Len(s) THEN 0 ELSE IF s[i] = x THEN i ELSE IndexOf(s, x, i + 1)

\* Array.splice(idx, 1)
Splice(s, idx) == SubSeq(s, 1, idx - 1) \o SubSeq(s, idx + 1, Len(s))

\* ---------------------------------------------------------- MessageBus
IdleConsumer == [pc |-> "idle", msg |-> Null, timer |-> FALSE]

BusInit ==
  /\ inboundQueue = <<>>
  /\ outboundQueue = <<>>
  /\ inboundWaiters = <<>>
  /\ outboundSubscribers = [ch \in Channels |-> <<>>]
  /\ busRunning = TRUE
  /\ consumers = [c \in Consumers |-> IdleConsumer]
  /\ dispatcher = [pc |-> "notstarted", msg |-> Null, idx |-> 0]
  /\ pubIn = <<>> /\ returned = <<>> /\ pubOut = <<>> /\ invoked = <<>>
  /\ threw = {}

\* wrappedResolve(msg): clearTimeout(timer); resolve(msg).  Resolving a
\* promise that is already settled has no effect.
wrappedResolve(cs, c, msg) ==
  IF cs[c].pc = "pending"
  THEN [cs EXCEPT ![c] = [pc |-> "resolved", msg |-> msg, timer |-> FALSE]]
  ELSE [cs EXCEPT ![c].timer = FALSE]

\* the timer callback's indexOf/splice of its own waiter
removeWaiterKeep(ws, c) == ws
removeWaiter(ws, c) ==
  LET idx == IndexOf(ws, c, 1) IN IF idx >= 1 THEN Splice(ws, idx) ELSE ws

\* body of publishInbound(msg), as an update of the bus state
publishInboundTo(msg) ==
  /\ pubIn' = Append(pubIn, msg)
  /\ IF Len(inboundWaiters) > 0
     THEN /\ inboundWaiters' = Tail(inboundWaiters)
          /\ consumers' = wrappedResolve(consumers, Head(inboundWaiters), msg)
          /\ UNCHANGED inboundQueue
     ELSE /\ inboundQueue' = Append(inboundQueue, msg)
          /\ UNCHANGED <<inboundWaiters, consumers>>

\* a producer calls publishInbound with a fresh event
publishInbound ==
  /\ Len(pubIn) < MaxInbound
  /\ \E inp \in InboundInputs :
       publishInboundTo([id |-> Len(pubIn) + 1] @@ inp)
  /\ UNCHANGED <<outboundQueue, outboundSubscribers, busRunning,
                 activeConsumers, dispatcher, returned, pubOut, invoked, threw>>
  /\ UNCHANGED nonBusVars

\* body of consumeInbound(timeoutMs) up to the point where it returns its promise
consumeInboundBy(c) ==
  IF Len(inboundQueue) > 0
  THEN /\ inboundQueue' = Tail(inboundQueue)
       /\ consumers' = [consumers EXCEPT
            ![c] = [pc |-> "resolved", msg |-> Head(inboundQueue), timer |-> FALSE]]
       /\ UNCHANGED inboundWaiters
  ELSE /\ inboundWaiters' = Append(inboundWaiters, c)
       /\ consumers' = [consumers EXCEPT
            ![c] = [pc |-> "pending", msg |-> Null, timer |-> TRUE]]
       /\ UNCHANGED inboundQueue

\* a plain consumer (not the agent loop) calls consumeInbound
consumeInbound ==
  /\ \E c \in activeConsumers \ {"loop"} :
       /\ consumers[c].pc = "idle"
       /\ consumeInboundBy(c)
  /\ UNCHANGED <<outboundQueue, outboundSubscribers, busRunning,
                 activeConsumers, dispatcher, pubIn, returned, pubOut, invoked, threw>>
  /\ UNCHANGED nonBusVars

\* the setTimeout callback of a waiting consumeInbound fires
consumeTimeout ==
  /\ \E c \in activeConsumers :
       /\ consumers[c].timer
       /\ inboundWaiters' = removeWaiter(inboundWaiters, c)
       /\ consumers' = [consumers EXCEPT ![c] =
            IF consumers[c].pc = "pending"
            THEN [pc |-> "rejected", msg |-> Null, timer |-> FALSE]
            ELSE [consumers[c] EXCEPT !.timer = FALSE]]
  /\ UNCHANGED <<inboundQueue, outboundQueue, outboundSubscribers, busRunning,
                 activeConsumers, dispatcher, pubIn, returned, pubOut, invoked, threw>>
  /\ UNCHANGED nonBusVars

\* the awaiting caller of a plain consumer resumes: with the event, or with
\* the "timeout" error
consumeReturn ==
  /\ \E c \in activeConsumers \ {"loop"} :
       \/ /\ consumers[c].pc = "resolved"
          /\ returned' = Append(returned, <<c, consumers[c].msg>>)
          /\ consumers' = [consumers EXCEPT ![c] = IdleConsumer]
       \/ /\ consumers[c].pc = "rejected"
          /\ consumers' = [consumers EXCEPT ![c] = IdleConsumer]
          /\ UNCHANGED returned
  /\ UNCHANGED <<inboundQueue, outboundQueue, inboundWaiters, outboundSubscribers,
                 busRunning, activeConsumers, dispatcher, pubIn, pubOut, invoked, threw>>
  /\ UNCHANGED nonBusVars

\* events a producer may hand to publishOutbound directly
OutboundInputs ==
  { [channel |-> ch, chatId |-> <<"1">>, content |-> "m"] : ch \in Channels }

\* body of publishOutbound(msg)
publishOutboundToFront(msg) ==
  /\ outboundQueue' = <<msg>> \o outboundQueue
  /\ pubOut' = Append(pubOut, msg)
publishOutboundTo(msg) ==
  /\ outboundQueue' = Append(outboundQueue, msg)
  /\ pubOut' = Append(pubOut, msg)

\* a producer calls publishOutbound with a fresh event
publishOutbound ==
  /\ Len(pubOut) < MaxOutbound
  /\ \E inp \in OutboundInputs :
       publishOutboundTo([id |-> Len(pubOut) + 1] @@ inp)
  /\ UNCHANGED <<inboundQueue, inboundWaiters, outboundSubscribers, busRunning,
                 consumers, activeConsumers, dispatcher, pubIn, returned, invoked, threw>>
  /\ UNCHANGED nonBusVars

\* handlers registered so far, over all channels
Registered == UNION { Range(outboundSubscribers[ch]) : ch \in Channels }

\* subscribeOutbound(channel, callback): each call registers a new callback
subscribeOutbound ==
  /\ Cardinality(Registered) < MaxSubscribers
  /\ \E ch \in Channels :
       outboundSubscribers' = [outboundSubscribers EXCEPT
          ![ch] = Append(@, Cardinality(Registered) + 1)]
  /\ UNCHANGED <<inboundQueue, outboundQueue, inboundWaiters, busRunning,
                 consumers, activeConsumers, dispatcher, pubIn, returned, pubOut,
                 invoked, threw>>
  /\ UNCHANGED nonBusVars

\* dispatchOutbound() is called (by ChannelManager.startAll)
dispatchOutbound ==
  /\ dispatcher.pc = "notstarted"
  /\ dispatcher' = [dispatcher EXCEPT !.pc = "top"]
  /\ UNCHANGED <<inboundQueue, outboundQueue, inboundWaiters, outboundSubscribers,
                 busRunning, consumers, activeConsumers, pubIn, returned, pubOut,
                 invoked, threw>>
  /\ UNCHANGED nonBusVars

\* this.outboundSubscribers.get(channel) ?? []
subscribersOf(channel) ==
  IF channel \in DOMAIN outboundSubscribers THEN outboundSubscribers[channel] ELSE <<>>

\* the channels the configuration enables: this.channels of ChannelManager
ChannelConfigs == {Channels}

\* ChannelManager.startAll(): one subscriber per enabled channel, numbered in
\* the order of the channel map (tg before cli), then dispatchOutbound()
startAll ==
  /\ dispatcher.pc = "notstarted"
  /\ Registered = {}
  /\ \E enabled \in ChannelConfigs :
       outboundSubscribers' =
         [ch \in Channels |->
            IF ch \in enabled
            THEN <<IF ch = "tg" THEN 1 ELSE Cardinality(enabled)>>
            ELSE <<>>]
  /\ dispatcher' = [dispatcher EXCEPT !.pc = "top"]
  /\ UNCHANGED <<inboundQueue, outboundQueue, inboundWaiters, busRunning, consumers,
                 activeConsumers, pubIn, returned, pubOut, invoked, threw>>
  /\ UNCHANGED nonBusVars

\* one pass of the while loop: exit, sleep 50 ms, or shift the next event and
\* call its first subscriber
dispatchNext ==
  /\ dispatcher.pc = "top"
  /\ IF ~busRunning
     THEN /\ dispatcher' = [dispatcher EXCEPT !.pc = "exited"]
          /\ UNCHANGED <<outboundQueue, invoked>>
     ELSE IF Len(outboundQueue) = 0
     THEN /\ dispatcher' = [dispatcher EXCEPT !.pc = "sleep"]
          /\ UNCHANGED <<outboundQueue, invoked>>
     ELSE LET msg == Head(outboundQueue)
              subscribers == subscribersOf(msg.channel) IN
          /\ outboundQueue' = Tail(outboundQueue)
          /\ IF Len(subscribers) = 0
             THEN /\ UNCHANGED <<dispatcher, invoked>>
             ELSE /\ dispatcher' = [pc |-> "await", msg |-> msg, idx |-> 1]
                  /\ invoked' = Append(invoked, <<subscribers[1], msg.id>>)
  /\ UNCHANGED <<inboundQueue, inboundWaiters, outboundSubscribers, busRunning,
                 consumers, activeConsumers, pubIn, returned, pubOut, threw>>
  /\ UNCHANGED nonBusVars

\* the 50 ms sleep of an idle dispatcher ends
dispatchWake ==
  /\ dispatcher.pc = "sleep"
  /\ dispatcher' = [dispatcher EXCEPT !.pc = "top"]
  /\ UNCHANGED <<inboundQueue, outboundQueue, inboundWaiters, outboundSubscribers,
                 busRunning, consumers, activeConsumers, pubIn, returned, pubOut,
                 invoked, threw>>
  /\ UNCHANGED nonBusVars

\* what the for-of loop does after `await cb(msg)` settled: the catch logs a
\* rejection, and the loop goes on with the next element of the (live) array
afterHandlerAbort(failed) ==
  LET subscribers == subscribersOf(dispatcher.msg.channel)
      next == dispatcher.idx + 1 IN
  IF ~failed /\ next <= Len(subscribers)
  THEN /\ dispatcher' = [dispatcher EXCEPT !.idx = next]
       /\ invoked' = Append(invoked, <<subscribers[next], dispatcher.msg.id>>)
  ELSE /\ dispatcher' = [pc |-> "top", msg |-> Null, idx |-> 0]
       /\ UNCHANGED invoked
afterHandler(failed) ==
  LET subscribers == subscribersOf(dispatcher.msg.channel)
      next == dispatcher.idx + 1 IN
  IF next <= Len(subscribers)
  THEN /\ dispatcher' = [dispatcher EXCEPT !.idx = next]
       /\ invoked' = Append(invoked, <<subscribers[next], dispatcher.msg.id>>)
  ELSE /\ dispatcher' = [pc |-> "top", msg |-> Null, idx |-> 0]
       /\ UNCHANGED invoked

\* the subscriber the dispatcher awaits returns or throws
dispatchHandlerSettles ==
  /\ dispatcher.pc = "await"
  /\ \E failed \in BOOLEAN :
       /\ threw' = IF failed
                   THEN threw \cup {<<subscribersOf(dispatcher.msg.channel)[dispatcher.idx],
                                      dispatcher.msg.id>>}
                   ELSE threw
       /\ afterHandler(failed)
  /\ UNCHANGED <<inboundQueue, outboundQueue, inboundWaiters, outboundSubscribers,
                 busRunning, consumers, activeConsumers, pubIn, returned, pubOut>>
  /\ UNCHANGED nonBusVars

\* MessageBus.stop()
busStop ==
  /\ busRunning
  /\ busRunning' = FALSE
  /\ UNCHANGED <<inboundQueue, outboundQueue, inboundWaiters, outboundSubscribers,
                 consumers, activeConsumers, dispatcher, pubIn, returned, pubOut,
                 invoked, threw>>
  /\ UNCHANGED nonBusVars

\* ------------------------------------------------------ agent: inputs
Turns == {"loop", "direct"}

\* processDirect(content, sessionKey, channel, chatId) as POST /agent/message
\* calls it: default channel "cli" and chatId "direct", any session key
DirectInputs ==
  { [content |-> "hello", sessionKey |-> <<"tg", ":", "1">>, channel |-> "cli",
     chatId |-> <<"direct">>] }

ToolCallMessage == [id |-> "t1", name |-> "message"]
ToolCallRead == [id |-> "t2", name |-> "read_file"]
ToolCallSpawn == [id |-> "t3", name |-> "spawn"]
ToolCallCron == [id |-> "t4", name |-> "cron"]

\* what provider.chat may answer: a text, nothing, or tool calls
Responses ==
  { [content |-> "hi", toolCalls |-> <<>>],
    [content |-> Null, toolCalls |-> <<>>],
    [content |-> Null, toolCalls |-> <<ToolCallMessage>>],
    [content |-> Null, toolCalls |-> <<ToolCallRead, ToolCallMessage>>] }

\* a provider that answers with a text or asks for the message tool
FewResponses ==
  { [content |-> "hi", toolCalls |-> <<>>],
    [content |-> Null, toolCalls |-> <<ToolCallMessage>>] }

ProviderError == "boom"

RECURSIVE Concat(_)
\* the string spelled by a sequence of tokens
Concat(ts) == IF ts = <<>> THEN "" ELSE Head(ts) \o Concat(Tail(ts))

\* `${channel}:${chatId}`
sessionKeyOf(channel, chatId) == <<channel, ":">> \o chatId

\* msg.content.trim().toLowerCase(), on the contents that occur
trimLower(content) ==
  CASE content = " /New " -> "/new"
    [] content = "/HELP" -> "/help"
    [] OTHER -> content

Unsafe == {"<", ">", ":", "\"", "/", "\\", "|", "?", "*"}

\* safeFilename(name): every unsafe character becomes "_"
safeFilename(name) ==
  [i \in 1..Len(name) |-> IF name[i] \in Unsafe THEN "_" ELSE name[i]]

\* origin channel and chat of a system event: chatId split at its first ":",
\* channel "cli" when there is none
originOfUnsplit(chatId) == [channel |-> "cli", chatId |-> chatId]
originOf(chatId) ==
  LET sepIdx == IndexOf(chatId, ":", 1) IN
  IF sepIdx >= 1
  THEN [channel |-> Concat(SubSeq(chatId, 1, sepIdx - 1)),
        chatId |-> SubSeq(chatId, sepIdx + 1, Len(chatId))]
  ELSE [channel |-> "cli", chatId |-> chatId]

Keys ==
  { sessionKeyOf(i.channel, i.chatId) : i \in { x \in InboundInputs : x.channel # "system" } }
  \cup { sessionKeyOf(originOf(i.chatId).channel, originOf(i.chatId).chatId) :
           i \in { x \in InboundInputs : x.channel = "system" } }
  \cup { d.sessionKey : d \in DirectInputs }

Files == { safeFilename(k) : k \in Keys }

\* --------------------------------------------- Session / SessionManager
SessIds == 1..MaxSessions

NoSession == [key |-> <<>>, messages |-> <<>>, lastConsolidated |-> 0]
NoFile == [exists |-> FALSE, lines |-> <<>>]

\* SessionMessageSchema: the keys a transcript message keeps, and its roles
SchemaKeysNoToolCallId == <<"role", "content", "timestamp", "toolsUsed", "toolCalls">>
SchemaKeys == <<"role", "content", "timestamp", "toolsUsed", "toolCallId", "toolCalls">>

Roles == {"user", "assistant", "system", "tool"}

\* JSON.stringify(obj) of an object with the given keys: one line, the
\* members <<key, value>> of the fields the object has
stringify(obj, keys) ==
  LET has == SelectSeq(keys, LAMBDA k : k \in DOMAIN obj) IN
  [i \in 1..Len(has) |-> <<has[i], obj[has[i]]>>]

\* JSON.parse(line): the object with the members of the line
parseLine(line) ==
  [k \in { line[i][1] : i \in 1..Len(line) } |->
     line[CHOOSE i \in 1..Len(line) : line[i][1] = k][2]]

\* SessionMessageSchema.parse(obj): the object without its unknown keys; it
\* throws (here: nothing) without a role of the enum or without content
schemaParse(obj) ==
  IF "role" \in DOMAIN obj /\ "content" \in DOMAIN obj /\ obj["role"] \in Roles
  THEN <<[k \in DOMAIN obj \cap Range(SchemaKeys) |-> obj[k]]>>
  ELSE <<>>

MetadataKeys == <<"_type", "lastConsolidated">>

\* new Session(key)
newSession(key) == [key |-> key, messages |-> <<>>, lastConsolidated |-> 0]

\* Session.addMessage(role, content, extra); toolsUsed <<>> stands for none
addMessage(session, role, content, toolsUsed) ==
  [session EXCEPT !.messages =
     Append(@, [role |-> role, content |-> content, toolsUsed |-> toolsUsed])]

\* Session.getHistory(maxMessages)
getHistory(session, maxMessages) ==
  LET n == Len(session.messages)
      msgs == IF maxMessages # 0 /\ n > maxMessages
              THEN SubSeq(session.messages, n - maxMessages + 1, n)
              ELSE session.messages IN
  [i \in 1..Len(msgs) |-> [role |-> msgs[i].role, content |-> msgs[i].content]]

\* Session.clear()
clear(session) == [session EXCEPT !.messages = <<>>, !.lastConsolidated = 0]

RECURSIVE loadLines(_, _)
\* the for loop of SessionManager.load over the lines of the file
loadLines(session, lines) ==
  IF lines = <<>> THEN session
  ELSE LET parsed == parseLine(Head(lines)) IN
       loadLines(
         IF "_type" \in DOMAIN parsed /\ parsed["_type"] = "metadata"
         THEN [session EXCEPT !.lastConsolidated =
                 IF "lastConsolidated" \in DOMAIN parsed
                 THEN parsed["lastConsolidated"] ELSE 0]
         ELSE [session EXCEPT !.messages = @ \o schemaParse(parsed)],
         Tail(lines))

\* SessionManager.load(key), for a file that exists
load(disk, key) == loadLines(newSession(key), disk[safeFilename(key)].lines)

\* the id the next Session object gets
freeSid(objs) ==
  CHOOSE i \in SessIds :
    objs[i] = NoSession /\ \A j \in SessIds : objs[j] = NoSession => i <= j

\* SessionManager.getOrCreate(key): cache hit, else load from disk, else new
getOrCreate(objs, cache, disk, key) ==
  IF cache[key] # 0
  THEN [sid |-> cache[key], objs |-> objs, cache |-> cache]
  ELSE LET sid == freeSid(objs)
           session == IF disk[safeFilename(key)].exists
                      THEN load(disk, key) ELSE newSession(key) IN
       [sid |-> sid, objs |-> [objs EXCEPT ![sid] = session],
        cache |-> [cache EXCEPT ![key] = sid]]

\* SessionManager.save(session): full rewrite of the session's file
save(disk, session) ==
  [disk EXCEPT ![safeFilename(session.key)] =
     [exists |-> TRUE,
      lines |-> <<stringify([_type |-> "metadata",
                             lastConsolidated |-> session.lastConsolidated],
                            MetadataKeys)>>
                \o [i \in 1..Len(session.messages) |->
                      stringify(session.messages[i], SchemaKeys)]]]

\* SessionManager.invalidate(key)
invalidateNothing(cache, key) == cache
invalidate(cache, key) == [cache EXCEPT ![key] = 0]

\* a Session object nobody refers to any more is gone
collect(objs, live) == [i \in SessIds |-> IF i \in live THEN objs[i] ELSE NoSession]

\* ------------------------------------------------- memory consolidation
\* Array.slice(start, end) with the negative-end rule of JavaScript, as the
\* pair of 0-based bounds it selects (empty when lo >= hi)
sliceBounds(len, start, end) ==
  LET lo == IF start > len THEN len ELSE start
      hi == IF end < 0 THEN (IF len + end < 0 THEN 0 ELSE len + end)
            ELSE IF end > len THEN len ELSE end IN
  [lo |-> lo, hi |-> hi]

\* consolidateMemory(session, archiveAll) up to its LLM call: the set holding
\* the call it is now waiting for, or the empty set after an early return
startConsolidation(by, sid, session, archiveAll) ==
  LET len == Len(session.messages)
      keepCount == memoryWindow \div 2
      b == sliceBounds(len, session.lastConsolidated, 0 - keepCount) IN
  IF archiveAll
  THEN { [by |-> by, sid |-> 0, key |-> session.key, archiveAll |-> TRUE,
          lo |-> 0, hi |-> len, keepCount |-> 0, old |-> session.messages,
          currentMemory |-> memoryMd] }
  ELSE IF len <= keepCount \/ len - session.lastConsolidated <= 0 \/ b.lo >= b.hi
  THEN {}
  ELSE { [by |-> by, sid |-> sid, key |-> session.key, archiveAll |-> FALSE,
          lo |-> b.lo, hi |-> b.hi, keepCount |-> keepCount,
          old |-> SubSeq(session.messages, b.lo + 1, b.hi),
          currentMemory |-> memoryMd] }

\* what provider.chat may do on the consolidation prompt: throw, or answer
\* with nothing, with no text, with text no repair makes JSON of, with plain
\* words, or with the JSON object asked for
JsonAnswer == "{\"history_entry\":\"summary\",\"memory_update\":\"facts\"}"

ConsolidationAnswers ==
  { [throws |-> TRUE, content |-> Null],
    [throws |-> FALSE, content |-> Null],
    [throws |-> FALSE, content |-> ""],
    [throws |-> FALSE, content |-> "{:2}"],
    [throws |-> FALSE, content |-> "summary"],
    [throws |-> FALSE, content |-> JsonAnswer] }

\* JSON.parse(text), on failure JSON.parse(jsonrepair(text)): whether that
\* threw, and the value if it did not; the repair makes a JSON string of
\* plain words and gives up on an object without a key
repairParseAnything(text) ==
  [threw |-> FALSE, isObject |-> TRUE, value |-> [history_entry |-> text]]
repairParse(text) ==
  CASE text = JsonAnswer ->
         [threw |-> FALSE, isObject |-> TRUE,
          value |-> [history_entry |-> "summary", memory_update |-> "facts"]]
    [] text = "summary" -> [threw |-> FALSE, isObject |-> FALSE, value |-> [string |-> text]]
    [] OTHER -> [threw |-> TRUE, isObject |-> FALSE, value |-> [string |-> ""]]

\* consolidateMemory from the settling of its LLM call on: the entries it
\* appends to HISTORY.md, the content of MEMORY.md after it, and whether it
\* reaches the assignment of lastConsolidated
consolidate(c, answer) ==
  LET nothing == [entries |-> <<>>, memory |-> memoryMd, done |-> FALSE]
      text == IF answer.content = Null THEN "" ELSE answer.content IN
  IF answer.throws \/ text = "" THEN nothing
  ELSE LET result == repairParse(text) IN
       IF result.threw \/ ~result.isObject THEN nothing
       ELSE [entries |-> IF "history_entry" \in DOMAIN result.value
                            /\ result.value["history_entry"] # ""
                         THEN <<[key |-> c.key, sid |-> c.sid, by |-> c.by,
                                 lo |-> c.lo, hi |-> c.hi,
                                 entry |-> result.value["history_entry"]]>>
                         ELSE <<>>,
             memory |-> IF "memory_update" \in DOMAIN result.value
                           /\ result.value["memory_update"] # ""
                           /\ result.value["memory_update"] # c.currentMemory
                        THEN result.value["memory_update"] ELSE memoryMd,
             done |-> TRUE]

\* ------------------------------------------------------------ AgentLoop
Fallback == "I've completed processing but have no response to give."
SystemFallback == "Background task completed."
Reflection == "Reflect on the results and decide next steps."
NewSessionReply == "New session started. Memory consolidation in progress."
HelpReply == "robun commands"
ApologyPrefix == "Sorry, I encountered an error: "

NoOrigin == [channel |-> "", chatId |-> <<>>]

IdleTurn ==
  [pc |-> "idle", msg |-> Null, system |-> FALSE, sid |-> 0, origin |-> NoOrigin,
   iteration |-> 0, calls |-> <<>>, j |-> 0, result |-> "", messages |-> <<>>,
   toolsUsed |-> <<>>, before |-> 0, chats |-> 0]

\* the effect of one synchronous stretch of processMessage, before it is
\* applied to the state
Effect(t) ==
  [turn |-> turns[t], objs |-> sessObjs, cache |-> sessCache, disk |-> sessDisk,
   ctx |-> toolContext, newConsol |-> {}, out |-> <<>>]

\* ContextBuilder.buildMessages: [system] + history + [user]
buildMessages(history, currentMessage) ==
  <<[role |-> "system", content |-> "prompt"]>> \o history
     \o <<[role |-> "user", content |-> currentMessage]>>

\* `finalContent ?? fallback` of processMessage / processSystemMessage
responseContentOfRaw(system, finalContent) ==
  IF finalContent = Null THEN "" ELSE finalContent
responseContentOf(system, finalContent) ==
  IF finalContent = Null
  THEN (IF system THEN SystemFallback ELSE Fallback)
  ELSE finalContent

\* the end of processMessage / processSystemMessage after runAgentLoop
\* returned: append user and assistant entry, save, return the reply
finish(t, R, finalContent) ==
  LET turn == R.turn
      responseContent == responseContentOf(turn.system, finalContent)
      userContent == IF turn.system
                     THEN "[System: " \o turn.msg.senderId \o "] " \o turn.msg.content
                     ELSE turn.msg.content
      s1 == addMessage(R.objs[turn.sid], "user", userContent, <<>>)
      s2 == addMessage(s1, "assistant", responseContent,
                       IF turn.system THEN <<>> ELSE turn.toolsUsed)
      reply == [channel |-> turn.origin.channel, chatId |-> turn.origin.chatId,
                content |-> responseContent] IN
  [R EXCEPT !.turn = IdleTurn,
            !.objs = [R.objs EXCEPT ![turn.sid] = s2],
            !.disk = save(R.disk, s2),
            !.out = IF t = "loop" THEN <<reply>> ELSE <<>>]

\* the while condition of runAgentLoop
continuesOffByOne(turn) == turn.iteration <= maxIterations
continues(turn) == turn.iteration < maxIterations

\* top of the while loop: next provider.chat call, or return [null, toolsUsed]
loopAgain(t, R) ==
  IF continues(R.turn)
  THEN [R EXCEPT !.turn.pc = "chat", !.turn.iteration = @ + 1,
                 !.turn.chats = @ + 1]
  ELSE finish(t, R, Null)

\* ToolRegistry.execute(tc.name, tc.arguments) for tool call number j, up to
\* its first await; MessageTool.execute is called without channel and chatId
startTool(t, R) ==
  LET tc == R.turn.calls[R.turn.j]
      turn1 == [R.turn EXCEPT !.pc = "tool", !.toolsUsed = Append(@, tc.name)] IN
  IF tc.name = "message"
  THEN IF R.ctx.channel = "" \/ R.ctx.chatId = <<>>
       THEN [R EXCEPT !.turn = [turn1 EXCEPT
                !.result = "Error: No target channel/chat specified."]]
       ELSE [R EXCEPT
              !.turn = [turn1 EXCEPT !.result = "Message sent"],
              !.out = <<[channel |-> R.ctx.channel, chatId |-> R.ctx.chatId,
                         content |-> "note"]>>]
  ELSE [R EXCEPT !.turn = [turn1 EXCEPT !.result = "file content"]]

\* runAgentLoop after provider.chat answered
onChat(t, R, response) ==
  IF Len(response.toolCalls) > 0
  THEN startTool(t, [R EXCEPT
         !.turn.messages = Append(@, [role |-> "assistant",
            tool_calls |-> [i \in 1..Len(response.toolCalls) |-> response.toolCalls[i].id]]),
         !.turn.calls = response.toolCalls,
         !.turn.j = 1])
  ELSE finish(t, R, response.content)

\* runAgentLoop after a tool returned: add the tool result, run the next
\* tool call, or add the reflection message and loop
onToolReflectEach(t, R) ==
  LET turn == R.turn
      tc == turn.calls[turn.j]
      added == Append(turn.messages,
                 [role |-> "tool", tool_call_id |-> tc.id, content |-> turn.result])
      reflected == Append(added, [role |-> "user", content |-> Reflection]) IN
  IF turn.j < Len(turn.calls)
  THEN startTool(t, [R EXCEPT !.turn.messages = reflected, !.turn.j = @ + 1])
  ELSE loopAgain(t, [R EXCEPT
         !.turn.messages = reflected,
         !.turn.calls = <<>>, !.turn.j = 0, !.turn.result = ""])
onTool(t, R) ==
  LET turn == R.turn
      tc == turn.calls[turn.j]
      added == Append(turn.messages,
                 [role |-> "tool", tool_call_id |-> tc.id, content |-> turn.result]) IN
  IF turn.j < Len(turn.calls)
  THEN startTool(t, [R EXCEPT !.turn.messages = added, !.turn.j = @ + 1])
  ELSE loopAgain(t, [R EXCEPT
         !.turn.messages = Append(added, [role |-> "user", content |-> Reflection]),
         !.turn.calls = <<>>, !.turn.j = 0, !.turn.result = ""])

\* processSystemMessage(msg) up to the first provider.chat call
beginSystem(t, msg) ==
  LET origin == originOf(msg.chatId)
      g == getOrCreate(sessObjs, sessCache, sessDisk,
                       sessionKeyOf(origin.channel, origin.chatId))
      session == g.objs[g.sid] IN
  loopAgain(t, [Effect(t) EXCEPT
    !.turn = [IdleTurn EXCEPT !.msg = msg, !.system = TRUE, !.sid = g.sid,
                !.origin = origin,
                !.messages = buildMessages(getHistory(session, memoryWindow), msg.content),
                !.before = Len(session.messages)],
    !.objs = g.objs, !.cache = g.cache, !.ctx = origin])

\* processMessage(msg, sessionKeyOverride) up to its first await or its
\* return; override <<>> stands for none
begin(t, msg, override) ==
  IF msg.channel = "system" THEN beginSystem(t, msg) ELSE
  LET key == IF override # <<>> THEN override ELSE sessionKeyOf(msg.channel, msg.chatId)
      g == getOrCreate(sessObjs, sessCache, sessDisk, key)
      session == g.objs[g.sid]
      cmd == trimLower(msg.content)
      origin == [channel |-> msg.channel, chatId |-> msg.chatId]
      E == [Effect(t) EXCEPT !.objs = g.objs, !.cache = g.cache] IN
  IF cmd = "/new"
  THEN LET cleared == clear(session) IN
       [E EXCEPT
         !.turn = IdleTurn,
         !.objs = [g.objs EXCEPT ![g.sid] = cleared],
         !.disk = save(sessDisk, cleared),
         !.cache = invalidate(g.cache, session.key),
         !.newConsol = startConsolidation(msg.id, 0,
                          [newSession(session.key) EXCEPT !.messages = session.messages],
                          TRUE),
         !.out = IF t = "loop"
                 THEN <<[channel |-> msg.channel, chatId |-> msg.chatId,
                         content |-> NewSessionReply]>>
                 ELSE <<>>]
  ELSE IF cmd = "/help"
  THEN [E EXCEPT
         !.turn = IdleTurn,
         !.out = IF t = "loop"
                 THEN <<[channel |-> msg.channel, chatId |-> msg.chatId,
                         content |-> HelpReply]>>
                 ELSE <<>>]
  ELSE loopAgain(t, [E EXCEPT
         !.turn = [IdleTurn EXCEPT !.msg = msg, !.sid = g.sid, !.origin = origin,
                     !.messages = buildMessages(getHistory(session, memoryWindow),
                                                msg.content),
                     !.before = Len(session.messages)],
         !.newConsol = IF Len(session.messages) > memoryWindow
                       THEN startConsolidation(msg.id, g.sid, session, FALSE)
                       ELSE {},
         !.ctx = origin])

\* processMessage rejects because provider.chat threw: run() publishes the
\* apology to msg.channel / msg.chatId, processDirect rejects
onThrowSilent(t, R, err) == [R EXCEPT !.turn = IdleTurn, !.out = <<>>]
onThrow(t, R, err) ==
  [R EXCEPT
     !.turn = IdleTurn,
     !.out = IF t = "loop"
             THEN <<[channel |-> R.turn.msg.channel, chatId |-> R.turn.msg.chatId,
                     content |-> ApologyPrefix \o err]>>
             ELSE <<>>]

\* the Session objects something still refers to
liveSids(ts, cache, cs) ==
  ({ ts[t].sid : t \in Turns } \cup { cache[k] : k \in DOMAIN cache }
     \cup { c.sid : c \in cs })
    \ {0}

\* make the effect of a stretch of processMessage the new state; the run
\* loop publishes what its processMessage call returned (or the apology)
apply(t, R) ==
  /\ turns' = [turns EXCEPT ![t] = R.turn]
  /\ sessCache' = R.cache
  /\ sessDisk' = R.disk
  /\ toolContext' = R.ctx
  /\ consol' = consol \cup R.newConsol
  /\ sessObjs' = collect(R.objs, liveSids(turns', R.cache, consol'))
  /\ IF R.out = <<>>
     THEN UNCHANGED <<outboundQueue, pubOut>>
     ELSE publishOutboundTo([id |-> Len(pubOut) + 1] @@ R.out[1])
  /\ runPc' = IF t # "loop" THEN runPc
              ELSE IF R.turn.pc = "idle" THEN "top" ELSE "processing"

\* ------------------------------------------------------ SubagentManager
SubIds == 1..MaxSpawn

SubMaxIterations == 15

\* the conversations a spawn tool call may come from
SpawnOrigins == { [channel |-> "tg", chatId |-> <<"1">>] }

\* the tools runSubagent registers: file, shell and web tools only
SubagentToolsAndSpawn ==
  {"read_file", "write_file", "edit_file", "list_dir", "exec", "web_search", "web_fetch",
   "spawn"}
SubagentTools ==
  {"read_file", "write_file", "edit_file", "list_dir", "exec", "web_search", "web_fetch"}

NoTask ==
  [pc |-> "none", originChannel |-> "", originChatId |-> <<>>, iteration |-> 0,
   calls |-> <<>>, j |-> 0, result |-> "", messages |-> <<>>, chats |-> 0]

DoneTask == [NoTask EXCEPT !.pc = "done"]

\* ToolRegistry.execute(name, params) on the sub-agent's registry
subExecute(name) ==
  IF name \in SubagentTools THEN "file content"
  ELSE "Error: Tool '" \o name \o "' not found."

\* the end of runSubagent: announceResult with the final result
subFinish(task, finalResult) ==
  [task |-> [task EXCEPT !.pc = "done"],
   announce |-> <<[status |-> "completed successfully",
                   result |-> IF finalResult = Null
                              THEN "Task completed but no final response was generated."
                              ELSE finalResult]>>]

\* the while condition of runSubagent
subContinues(task) == task.iteration < SubMaxIterations

\* top of the while loop of runSubagent: next provider.chat call, or the end
subLoopAgain(task) ==
  IF subContinues(task)
  THEN [task |-> [task EXCEPT !.pc = "chat", !.iteration = @ + 1, !.chats = @ + 1],
        announce |-> <<>>]
  ELSE subFinish(task, Null)

\* tools.execute for tool call number j of the sub-agent
subStartTool(task) ==
  [task EXCEPT !.pc = "tool", !.result = subExecute(task.calls[task.j].name)]

\* runSubagent after provider.chat answered
subOnChat(task, response) ==
  IF Len(response.toolCalls) > 0
  THEN [task |-> subStartTool([task EXCEPT
            !.messages = Append(@, [role |-> "assistant",
               content |-> IF response.content = Null THEN "" ELSE response.content,
               tool_calls |-> [i \in 1..Len(response.toolCalls) |-> response.toolCalls[i].id]]),
            !.calls = response.toolCalls, !.j = 1]),
        announce |-> <<>>]
  ELSE subFinish(task, response.content)

\* runSubagent after a tool returned: add the result, next tool call or loop
subOnTool(task) ==
  LET tc == task.calls[task.j]
      added == Append(task.messages,
                 [role |-> "tool", tool_call_id |-> tc.id, name |-> tc.name,
                  content |-> task.result]) IN
  IF task.j < Len(task.calls)
  THEN [task |-> subStartTool([task EXCEPT !.messages = added, !.j = @ + 1]),
        announce |-> <<>>]
  ELSE subLoopAgain([task EXCEPT !.messages = added, !.calls = <<>>, !.j = 0,
                                 !.result = ""])

\* the catch of runSubagent: announce the error
subOnThrowSilent(task, err) == [task |-> [task EXCEPT !.pc = "done"], announce |-> <<>>]
subOnThrow(task, err) ==
  [task |-> [task EXCEPT !.pc = "done"],
   announce |-> <<[status |-> "failed", result |-> "Error: " \o err]>>]

\* announceResult(...): the event published on channel "system"
announcement(task, a) ==
  [id |-> Len(pubIn) + 1, channel |-> "system", senderId |-> "subagent",
   chatId |-> sessionKeyOf(task.originChannel, task.originChatId),
   content |-> "[Subagent " \o a.status \o "] " \o a.result]

\* make the effect of a stretch of runSubagent the new state; the finally of
\* spawn drops a finished task from runningTasks
applySub(id, S) ==
  /\ subTasks' = [subTasks EXCEPT ![id] = IF S.task.pc = "done" THEN DoneTask ELSE S.task]
  /\ runningTasks' = IF S.task.pc = "done" THEN runningTasks \ {id}
                     ELSE runningTasks \cup {id}
  /\ IF S.announce = <<>>
     THEN UNCHANGED <<inboundQueue, inboundWaiters, consumers, pubIn>>
     ELSE publishInboundTo(announcement(S.task, S.announce[1]))

\* SubagentManager.spawn(task, label, originChannel, originChatId): returns
\* the acknowledgement at once; runSubagent runs up to its first provider.chat
spawn ==
  /\ \E id \in SubIds, origin \in SpawnOrigins :
       /\ subTasks[id].pc = "none"
       /\ \A other \in SubIds : other < id => subTasks[other].pc # "none"
       /\ applySub(id, subLoopAgain([NoTask EXCEPT
            !.originChannel = origin.channel, !.originChatId = origin.chatId,
            !.messages = <<[role |-> "system", content |-> "subagent prompt"],
                           [role |-> "user", content |-> "task"]>>]))
  /\ UNCHANGED <<outboundQueue, outboundSubscribers, busRunning, activeConsumers,
                 dispatcher, returned, pubOut, invoked, threw, agentVars,
                 sideVars>>

\* what provider.chat may answer a sub-agent, which offers its own tools: a
\* text, nothing, or a call of one of them
SubResponses ==
  { [content |-> "done", toolCalls |-> <<>>],
    [content |-> Null, toolCalls |-> <<>>],
    [content |-> Null, toolCalls |-> <<ToolCallRead>>] }

\* a provider that asks a sub-agent for tools of the main agent as well
ForeignCalls ==
  { [content |-> "done", toolCalls |-> <<>>],
    [content |-> Null, toolCalls |-> <<>>],
    [content |-> Null,
     toolCalls |-> <<ToolCallRead, ToolCallMessage, ToolCallSpawn, ToolCallCron>>] }

\* provider.chat of a sub-agent answers
subChatAnswers ==
  /\ \E id \in SubIds, response \in subAnswers :
       /\ subTasks[id].pc = "chat"
       /\ \E S \in {subOnChat(subTasks[id], response)} : applySub(id, S)
  /\ UNCHANGED <<outboundQueue, outboundSubscribers, busRunning, activeConsumers,
                 dispatcher, returned, pubOut, invoked, threw, agentVars,
                 sideVars>>

\* provider.chat of a sub-agent throws
subChatThrows ==
  /\ \E id \in SubIds :
       /\ subTasks[id].pc = "chat"
       /\ \E S \in {subOnThrow(subTasks[id], ProviderError)} : applySub(id, S)
  /\ UNCHANGED <<outboundQueue, outboundSubscribers, busRunning, activeConsumers,
                 dispatcher, returned, pubOut, invoked, threw, agentVars,
                 sideVars>>

\* the tool a sub-agent is waiting for returns its result string
subToolSettles ==
  /\ \E id \in SubIds :
       /\ subTasks[id].pc = "tool"
       /\ \E S \in {subOnTool(subTasks[id])} : applySub(id, S)
  /\ UNCHANGED <<outboundQueue, outboundSubscribers, busRunning, activeConsumers,
                 dispatcher, returned, pubOut, invoked, threw, agentVars,
                 sideVars>>

\* a SessionManager with no session in its cache nor in its directory
NoSessions ==
  /\ sessObjs = [i \in SessIds |-> NoSession]
  /\ sessCache = [k \in Keys |-> 0]
  /\ sessDisk = [f \in Files |-> NoFile]

AgentStart ==
  /\ agentRunning = FALSE
  /\ memoryWindow = MemoryWindow
  /\ runPc = "notstarted"
  /\ turns = [t \in Turns |-> IdleTurn]
  /\ consol = {}
  /\ nDirect = 0
  /\ toolContext = NoOrigin
  /\ historyMd = <<>>
  /\ memoryMd = ""
  /\ subTasks = [i \in SubIds |-> NoTask]
  /\ runningTasks = {}

AgentInit ==
  /\ NoSessions
  /\ AgentStart

\* AgentLoop.run() is called
agentRun ==
  /\ runPc = "notstarted"
  /\ agentRunning' = TRUE
  /\ runPc' = "top"
  /\ UNCHANGED <<busVars, maxIterations, memoryWindow, turns, consol, nDirect,
                 toolContext, sessObjs, sessCache, sessDisk, historyMd, memoryMd,
                 providerAnswers, subAnswers>>
  /\ UNCHANGED <<subVars, sideVars>>

\* AgentLoop.stop()
agentStop ==
  /\ agentRunning
  /\ agentRunning' = FALSE
  /\ UNCHANGED <<busVars, maxIterations, memoryWindow, runPc, turns, consol, nDirect,
                 toolContext, sessObjs, sessCache, sessDisk, historyMd, memoryMd,
                 providerAnswers, subAnswers>>
  /\ UNCHANGED <<subVars, sideVars>>

\* run(): the while condition, then the call of bus.consumeInbound(1000)
runLoopTopNoExit ==
  /\ runPc = "top"
  /\ consumeInboundBy("loop")
  /\ runPc' = "consuming"
  /\ UNCHANGED <<outboundQueue, outboundSubscribers, busRunning, activeConsumers,
                 dispatcher, pubIn, returned, pubOut, invoked, threw,
                 agentRunning, maxIterations, memoryWindow, turns, consol, nDirect,
                 toolContext, sessObjs, sessCache, sessDisk, historyMd, memoryMd,
                 providerAnswers, subAnswers>>
  /\ UNCHANGED <<subVars, sideVars>>
runLoopTop ==
  /\ runPc = "top"
  /\ IF agentRunning
     THEN /\ consumeInboundBy("loop")
          /\ runPc' = "consuming"
     ELSE /\ runPc' = "returned"
          /\ UNCHANGED <<inboundQueue, inboundWaiters, consumers>>
  /\ UNCHANGED <<outboundQueue, outboundSubscribers, busRunning, activeConsumers,
                 dispatcher, pubIn, returned, pubOut, invoked, threw,
                 agentRunning, maxIterations, memoryWindow, turns, consol, nDirect,
                 toolContext, sessObjs, sessCache, sessDisk, historyMd, memoryMd,
                 providerAnswers, subAnswers>>
  /\ UNCHANGED <<subVars, sideVars>>

\* run(): consumeInbound rejected with "timeout"; the outer catch swallows it
runLoopTimeout ==
  /\ runPc = "consuming"
  /\ consumers["loop"].pc = "rejected"
  /\ consumers' = [consumers EXCEPT !["loop"] = IdleConsumer]
  /\ runPc' = "top"
  /\ UNCHANGED <<inboundQueue, outboundQueue, inboundWaiters, outboundSubscribers,
                 busRunning, activeConsumers, dispatcher, pubIn, returned, pubOut,
                 invoked, threw,
                 agentRunning, maxIterations, memoryWindow, turns, consol, nDirect,
                 toolContext, sessObjs, sessCache, sessDisk, historyMd, memoryMd,
                 providerAnswers, subAnswers>>
  /\ UNCHANGED <<subVars, sideVars>>

\* run(): consumeInbound returned an event; processMessage(msg) starts
runLoopProcess ==
  /\ runPc = "consuming"
  /\ consumers["loop"].pc = "resolved"
  /\ returned' = Append(returned, <<"loop", consumers["loop"].msg>>)
  /\ consumers' = [consumers EXCEPT !["loop"] = IdleConsumer]
  /\ \E R \in {begin("loop", consumers["loop"].msg, <<>>)} : apply("loop", R)
  /\ UNCHANGED <<inboundQueue, inboundWaiters, outboundSubscribers, busRunning,
                 activeConsumers, dispatcher, pubIn, invoked, threw,
                 agentRunning, maxIterations, memoryWindow, nDirect,
                 historyMd, memoryMd, providerAnswers, subAnswers>>
  /\ UNCHANGED <<subVars, sideVars>>

\* processDirect(content, sessionKey, channel, chatId) is called: by the HTTP
\* route, the cron onJob callback or the heartbeat callback
processDirect ==
  /\ turns["direct"].pc = "idle"
  /\ nDirect < MaxDirect
  /\ \E inp \in DirectInputs :
       \E R \in {begin("direct",
                       [id |-> 100 + nDirect, channel |-> inp.channel,
                        senderId |-> "user", chatId |-> inp.chatId,
                        content |-> inp.content],
                       inp.sessionKey)} :
         apply("direct", R)
  /\ nDirect' = nDirect + 1
  /\ UNCHANGED <<inboundQueue, inboundWaiters, outboundSubscribers, busRunning,
                 consumers, activeConsumers, dispatcher, pubIn, returned, invoked, threw,
                 agentRunning, maxIterations, memoryWindow, historyMd, memoryMd,
                 providerAnswers, subAnswers>>
  /\ UNCHANGED <<subVars, sideVars>>

\* provider.chat of a tool loop answers
chatAnswers ==
  /\ \E t \in Turns, response \in providerAnswers :
       /\ turns[t].pc = "chat"
       /\ \E R \in {onChat(t, Effect(t), response)} : apply(t, R)
  /\ UNCHANGED <<inboundQueue, inboundWaiters, outboundSubscribers, busRunning,
                 consumers, activeConsumers, dispatcher, pubIn, returned, invoked, threw,
                 agentRunning, maxIterations, memoryWindow, nDirect, historyMd, memoryMd,
                 providerAnswers, subAnswers>>
  /\ UNCHANGED <<subVars, sideVars>>

\* provider.chat of a tool loop throws
chatThrows ==
  /\ \E t \in Turns :
       /\ turns[t].pc = "chat"
       /\ \E R \in {onThrow(t, Effect(t), ProviderError)} : apply(t, R)
  /\ UNCHANGED <<inboundQueue, inboundWaiters, outboundSubscribers, busRunning,
                 consumers, activeConsumers, dispatcher, pubIn, returned, invoked, threw,
                 agentRunning, maxIterations, memoryWindow, nDirect, historyMd, memoryMd,
                 providerAnswers, subAnswers>>
  /\ UNCHANGED <<subVars, sideVars>>

\* the tool a tool loop is waiting for returns its result string
toolSettles ==
  /\ \E t \in Turns :
       /\ turns[t].pc = "tool"
       /\ \E R \in {onTool(t, Effect(t))} : apply(t, R)
  /\ UNCHANGED <<inboundQueue, inboundWaiters, outboundSubscribers, busRunning,
                 consumers, activeConsumers, dispatcher, pubIn, returned, invoked, threw,
                 agentRunning, maxIterations, memoryWindow, nDirect, historyMd, memoryMd,
                 providerAnswers, subAnswers>>
  /\ UNCHANGED <<subVars, sideVars>>

\* the LLM call of a consolidateMemory answers: with a usable JSON object
\* (ok), or it throws, is empty or is not JSON
consolidationSettles ==
  /\ \E c \in consol, answer \in ConsolidationAnswers :
       \E e \in {consolidate(c, answer)} :
         /\ consol' = consol \ {c}
         /\ historyMd' = historyMd \o e.entries
         /\ memoryMd' = e.memory
         /\ sessObjs' = collect(
              IF e.done /\ ~c.archiveAll
              THEN [sessObjs EXCEPT ![c.sid].lastConsolidated =
                      Len(sessObjs[c.sid].messages) - c.keepCount]
              ELSE sessObjs,
              liveSids(turns, sessCache, consol'))
  /\ UNCHANGED <<busVars, agentRunning, maxIterations, memoryWindow, runPc, turns,
                 nDirect, toolContext, sessCache, sessDisk, providerAnswers, subAnswers>>
  /\ UNCHANGED <<subVars, sideVars>>

\* ----------------------------------------------------------------- tools
\* A text is a sequence of characters (strings of length one); a result string
\* is a sequence of such pieces, compared with Flat.
RECURSIVE Flat(_)
Flat(ts) == IF ts = <<>> THEN <<>> ELSE Head(ts) \o Flat(Tail(ts))

Letters == {"a", "b", "c", "d", "e", "f", "g", "h", "i", "j", "k", "l", "m",
            "n", "o", "p", "q", "r", "s", "t", "u", "v", "w", "x", "y", "z"}
Capitals == [A |-> "a", B |-> "b", C |-> "c", D |-> "d", E |-> "e", F |-> "f",
             M |-> "m", R |-> "r", S |-> "s", T |-> "t"]
Digits == {"0", "1", "2", "3", "4", "5", "6", "7", "8", "9"}
Space == {" ", "\t", "\n"}

\* String.prototype.toLowerCase
toLowerCase(s) ==
  [i \in 1..Len(s) |-> IF s[i] \in DOMAIN Capitals THEN Capitals[s[i]] ELSE s[i]]

\* String.prototype.includes
includes(s, t) ==
  \E i \in 0..(Len(s) - Len(t)) : SubSeq(s, i + 1, i + Len(t)) = t

\* String.prototype.indexOf: the characters before the first occurrence
indexOf(s, t) ==
  CHOOSE i \in 0..(Len(s) - Len(t)) :
    /\ SubSeq(s, i + 1, i + Len(t)) = t
    /\ \A j \in 0..(i - 1) : SubSeq(s, j + 1, j + Len(t)) # t

\* String.prototype.split with a string separator: the pieces between the
\* occurrences found scanning from the left, each search resuming after the
\* previous occurrence; an empty separator splits into the single characters.
RECURSIVE splitFrom(_, _, _)
splitFrom(rest, sep, piece) ==
  IF Len(rest) < Len(sep) THEN <<piece \o rest>>
  ELSE IF SubSeq(rest, 1, Len(sep)) = sep
       THEN <<piece>> \o splitFrom(SubSeq(rest, Len(sep) + 1, Len(rest)), sep, <<>>)
       ELSE splitFrom(Tail(rest), sep, Append(piece, Head(rest)))

split(s, sep) ==
  IF sep = <<>> THEN [i \in 1..Len(s) |-> <<s[i]>>] ELSE splitFrom(s, sep, <<>>)

\* the replacement patterns String.prototype.replace expands in its second
\* argument: $$, $&, $` and $'
RECURSIVE expand(_, _, _, _)
expand(new, before, matched, after) ==
  IF new = <<>> THEN <<>>
  ELSE IF Head(new) = "$" /\ Len(new) >= 2 /\ new[2] \in {"$", "&", "`", "'"}
       THEN (CASE new[2] = "$" -> <<"$">>
               [] new[2] = "&" -> matched
               [] new[2] = "`" -> before
               [] new[2] = "'" -> after)
            \o expand(Tail(Tail(new)), before, matched, after)
       ELSE <<Head(new)>> \o expand(Tail(new), before, matched, after)

\* String.prototype.replace with a string pattern: the first occurrence only
replace(s, old, new) ==
  IF ~includes(s, old) THEN s
  ELSE LET i == indexOf(s, old)
           before == SubSeq(s, 1, i)
           after == SubSeq(s, i + Len(old) + 1, Len(s))
       IN  before \o expand(new, before, old, after) \o after

\* ---- paths: the segments of an absolute path
Workspace == <<"ws">>

RECURSIVE normalize(_, _)
normalize(segments, done) ==
  IF segments = <<>> THEN done
  ELSE IF Head(segments) = ".."
       THEN normalize(Tail(segments),
                      IF done = <<>> THEN done ELSE SubSeq(done, 1, Len(done) - 1))
       ELSE normalize(Tail(segments), Append(done, Head(segments)))

\* path.resolve
resolve(path) == normalize(path, <<>>)

RECURSIVE pathText(_)
pathText(path) ==
  IF path = <<>> THEN <<>> ELSE <<"/", Head(path)>> \o pathText(Tail(path))

startsWith(s, prefix) ==
  Len(s) >= Len(prefix) /\ SubSeq(s, 1, Len(prefix)) = prefix

\* resolvePath: the resolved path, or the error it throws
resolvePath(path, restricted) ==
  LET resolved == resolve(path) IN
  IF /\ restricted
     /\ ~startsWith(pathText(resolved), pathText(Workspace) \o <<"/">>)
     /\ resolved # Workspace
  THEN [threw |-> TRUE, path |-> resolved,
        message |-> <<"Access denied: path '">> \o pathText(path)
                    \o <<"' is outside workspace">>]
  ELSE [threw |-> FALSE, path |-> resolved, message |-> <<>>]

FilePaths == {<<"ws", "f.txt">>, <<"ws", "missing.txt">>, <<"etc", "x">>}
GivenPaths == FilePaths \cup {<<"ws", "..", "etc", "x">>}
NoContent == [exists |-> FALSE, content |-> <<>>]
Content(text) == [exists |-> TRUE, content |-> text]

\* EditFileTool.execute: the files afterwards and the string returned
editFile(fs, params, restricted) ==
  LET r == resolvePath(params.path, restricted) IN
  IF r.threw THEN [files |-> fs, result |-> <<"Error: ">> \o r.message]
  ELSE IF r.path \notin DOMAIN fs \/ ~fs[r.path].exists
  THEN [files |-> fs,
        result |-> <<"Error: File not found: ">> \o pathText(params.path)]
  ELSE LET content == fs[r.path].content
           count == Len(split(content, params.old_text)) - 1
       IN  IF ~includes(content, params.old_text)
           THEN [files |-> fs,
                 result |-> <<"Error: old_text not found in file. Make sure it matches exactly.">>]
           ELSE IF count > 1
           THEN [files |-> fs,
                 result |-> <<"Warning: old_text ", "appears ", ToString(count),
                              " times", ". Please provide more context to make it unique.">>]
           ELSE [files |-> [fs EXCEPT ![r.path] =
                              Content(replace(content, params.old_text, params.new_text))],
                 result |-> <<"Successfully edited ">> \o pathText(params.path)]

\* ---- regular expressions, as far as the deny patterns use them
IsWord(c) == c \in Letters \cup Digits \cup {"_"} \cup DOMAIN Capitals

\* \b between the characters i and i + 1 of s
boundary(s, i) ==
  (i >= 1 /\ IsWord(s[i])) # (i < Len(s) /\ IsWord(s[i + 1]))

B == [kind |-> "boundary"]
Lit(w) == [j \in 1..Len(w) |-> [kind |-> "set", set |-> {w[j]}, min |-> 1, many |-> FALSE, max |-> 1]]
Some(set, min, max) == [kind |-> "set", set |-> set, min |-> min, many |-> FALSE, max |-> max]
Many(set, min) == [kind |-> "set", set |-> set, min |-> min, many |-> TRUE, max |-> min]
AnyMany == [kind |-> "dot"]
Alt(words) == [kind |-> "alt", words |-> words]

\* the pattern matches s from its character i + 1 on
RECURSIVE matchHere(_, _, _)
matchHere(atoms, s, i) ==
  IF atoms = <<>> THEN TRUE
  ELSE LET a == Head(atoms)
           rest == Tail(atoms)
           left == Len(s) - i
       IN  CASE a.kind = "boundary" -> boundary(s, i) /\ matchHere(rest, s, i)
             [] a.kind = "set" ->
                  \E n \in a.min..(IF a.many \/ a.max > left THEN left ELSE a.max) :
                    /\ \A j \in 1..n : s[i + j] \in a.set
                    /\ matchHere(rest, s, i + n)
             [] a.kind = "dot" ->
                  \E n \in 0..left :
                    /\ \A j \in 1..n : s[i + j] # "\n"
                    /\ matchHere(rest, s, i + n)
             [] a.kind = "alt" ->
                  \E w \in a.words :
                    /\ Len(w) <= left
                    /\ SubSeq(s, i + 1, i + Len(w)) = w
                    /\ matchHere(rest, s, i + Len(w))

\* RegExp.prototype.test
test(pattern, s) ==
  LET t == IF pattern.ignoreCase THEN toLowerCase(s) ELSE s
  IN  \E i \in 0..Len(s) : matchHere(pattern.atoms, t, i)

DEFAULT_DENY_PATTERNS ==
  << [ignoreCase |-> FALSE,
      atoms |-> <<B>> \o Lit(<<"r", "m">>) \o <<Many(Space, 1)>> \o Lit(<<"-">>)
                \o <<Some({"r", "f"}, 1, 2), B>>],
     [ignoreCase |-> TRUE,
      atoms |-> <<B>> \o Lit(<<"d", "e", "l">>) \o <<Many(Space, 1)>> \o Lit(<<"/">>)
                \o <<Some({"f", "q"}, 1, 1), B>>],
     [ignoreCase |-> TRUE,
      atoms |-> <<B>> \o Lit(<<"r", "m", "d", "i", "r">>) \o <<Many(Space, 1)>>
                \o Lit(<<"/", "s">>) \o <<B>>],
     [ignoreCase |-> TRUE,
      atoms |-> <<B, Alt({<<"f", "o", "r", "m", "a", "t">>, <<"m", "k", "f", "s">>,
                          <<"d", "i", "s", "k", "p", "a", "r", "t">>}), B>>],
     [ignoreCase |-> FALSE,
      atoms |-> <<B>> \o Lit(<<"d", "d">>) \o <<Many(Space, 1)>>
                \o Lit(<<"i", "f", "=">>)],
     [ignoreCase |-> FALSE,
      atoms |-> Lit(<<">">>) \o <<Many(Space, 0)>>
                \o Lit(<<"/", "d", "e", "v", "/", "s", "d">>)],
     [ignoreCase |-> FALSE,
      atoms |-> <<B, Alt({<<"s", "h", "u", "t", "d", "o", "w", "n">>,
                          <<"r", "e", "b", "o", "o", "t">>,
                          <<"p", "o", "w", "e", "r", "o", "f", "f">>}), B>>],
     [ignoreCase |-> FALSE,
      atoms |-> Lit(<<":", "(", ")">>) \o <<Many(Space, 0)>> \o Lit(<<"{">>)
                \o <<AnyMany>> \o Lit(<<"}", ";">>) \o <<Many(Space, 0)>>
                \o Lit(<<":">>)] >>

Blocked(what) ==
  <<"Error: Command blocked by safety guard", " (", what, " detected)">>

\* ExecTool.guardCommand: the refusal, or <<>> for null
guardCommand(command, restricted) ==
  LET lower == toLowerCase(command) IN
  IF \E p \in 1..Len(DEFAULT_DENY_PATTERNS) : test(DEFAULT_DENY_PATTERNS[p], lower)
  THEN Blocked("dangerous pattern")
  ELSE IF /\ restricted
          /\ \/ includes(command, <<".", ".", "/">>)
             \/ includes(command, <<".", ".", "\\">>)
  THEN Blocked("path traversal")
  ELSE <<>>

\* String.prototype.trim, as a test for emptiness
blank(s) == \A i \in 1..Len(s) : s[i] \in Space

OutputLimit == 10000

\* what the shell process may do: its output streams and its exit code
ProcessRuns ==
  { [stdout |-> <<"o", "k", "\n">>, stderr |-> <<>>, exitCode |-> 0],
    [stdout |-> <<>>, stderr |-> <<>>, exitCode |-> 0],
    [stdout |-> <<>>, stderr |-> <<"n", "o", "\n">>, exitCode |-> 1],
    [stdout |-> <<"o", "k", "\n">>, stderr |-> <<>>, exitCode |-> 143] }

\* ExecTool.execute after the guard: the output string built from a run
execOutput(run) ==
  LET out1 == IF ~blank(run.stdout) THEN run.stdout ELSE <<>>
      out2 == IF ~blank(run.stderr)
              THEN out1 \o (IF out1 # <<>> THEN <<"\n">> ELSE <<>>)
                   \o <<"STDERR:\n">> \o run.stderr
              ELSE out1
      out3 == IF blank(out2)
              THEN <<"(no output, exit code ", ToString(run.exitCode), ")">>
              ELSE out2
      out4 == IF run.exitCode # 0 /\ "STDERR:\n" \notin Range(out3)
              THEN out3 \o <<"\nExit code: ", ToString(run.exitCode)>>
              ELSE out3
  IN  IF Len(out4) > OutputLimit
      THEN SubSeq(out4, 1, OutputLimit) \o <<"\n... (truncated)">>
      ELSE out4

\* ExecTool.execute: the processes started afterwards and the string returned
exec(procs, params, restricted, run) ==
  LET blocked == guardCommand(params.command, restricted)
      cwd == IF "working_dir" \in DOMAIN params THEN params.working_dir
             ELSE Workspace
  IN  IF blocked # <<>> THEN [shells |-> procs, result |-> blocked]
      ELSE [shells |-> procs \cup {[command |-> params.command, cwd |-> cwd]},
            result |-> execOutput(run)]

\* ---- MCPToolWrapper
\* what session.callTool may do: resolve with content blocks, or reject
McpCalls ==
  { [threw |-> FALSE, error |-> "", message |-> <<>>, issues |-> <<>>,
     content |-> <<[type |-> "text", text |-> "pong"], [type |-> "image", text |-> ""],
                   [type |-> "text", text |-> "again"]>>],
    [threw |-> FALSE, error |-> "", message |-> <<>>, issues |-> <<>>,
     content |-> <<>>],
    [threw |-> TRUE, error |-> "Error", message |-> <<"connection closed">>,
     issues |-> <<>>, content |-> <<>>],
    [threw |-> TRUE, error |-> "ZodError", message |-> <<"invalid result">>,
     issues |-> <<[path |-> <<"content">>, message |-> "Required"]>>,
     content |-> <<>>] }

RECURSIVE join(_, _)
join(parts, sep) ==
  IF parts = <<>> THEN <<>>
  ELSE IF Len(parts) = 1 THEN Head(parts)
  ELSE Head(parts) \o <<sep>> \o join(Tail(parts), sep)

RECURSIVE texts(_)
texts(content) ==
  IF content = <<>> THEN <<>>
  ELSE (IF Head(content).type = "text" THEN <<<<Head(content).text>>>> ELSE <<>>)
       \o texts(Tail(content))

\* MCPToolWrapper.execute, given what callTool did
mcpExecute(call) ==
  IF call.threw THEN call
  ELSE [call EXCEPT !.message =
          IF join(texts(call.content), "\n") = <<>> THEN <<"(no output)">>
          ELSE join(texts(call.content), "\n")]

\* ---- ToolRegistry
\* the tools registered, each with the fields of its z.object schema
Schemas ==
  [edit_file |-> [passthrough |-> FALSE,
                  fields |-> <<[key |-> "path", optional |-> FALSE],
                               [key |-> "old_text", optional |-> FALSE],
                               [key |-> "new_text", optional |-> FALSE]>>],
   exec |-> [passthrough |-> FALSE,
             fields |-> <<[key |-> "command", optional |-> FALSE],
                          [key |-> "working_dir", optional |-> TRUE]>>],
   mcp_srv_echo |-> [passthrough |-> TRUE, fields |-> <<>>]]

\* an argument as the LLM sent it
Str(value) == [type |-> "string", value |-> value]
Num(value) == [type |-> "number", value |-> value]

\* ZodSchema.parse: the issues found, in the order of the schema's fields
RECURSIVE issuesOf(_, _)
issuesOf(fields, args) ==
  IF fields = <<>> THEN <<>>
  ELSE LET f == Head(fields) IN
       (IF f.key \notin DOMAIN args
        THEN IF f.optional THEN <<>>
             ELSE <<[path |-> <<f.key>>, message |-> "Required"]>>
        ELSE IF args[f.key].type # "string"
             THEN <<[path |-> <<f.key>>,
                     message |-> "Expected string, received " \o args[f.key].type]>>
             ELSE <<>>)
       \o issuesOf(Tail(fields), args)

\* the value ZodSchema.parse returns for arguments without issues
parsed(schema, args) ==
  LET keys == IF schema.passthrough THEN DOMAIN args
              ELSE { schema.fields[i].key : i \in 1..Len(schema.fields) }
                   \cap DOMAIN args
  IN  [k \in keys |-> args[k].value]

RECURSIVE issueTexts(_)
issueTexts(issues) ==
  IF issues = <<>> THEN <<>>
  ELSE << join([i \in 1..Len(Head(issues).path) |-> <<Head(issues).path[i]>>], ".")
          \o <<": ", Head(issues).message>> >>
       \o issueTexts(Tail(issues))

InvalidParameters(issues) ==
  <<"Invalid parameters: ">> \o join(issueTexts(issues), ", ")

\* the catch block of ToolRegistry.execute
caught(name, err) ==
  IF err.error = "ZodError" THEN InvalidParameters(err.issues)
  ELSE <<"Error executing ", name, ": ">> \o err.message

\* a call of ToolRegistry.execute: whether the tool's execute was invoked,
\* whether it threw, what it returned, and what the registry gave its caller
\* (every path of the method ends in a return, none in a throw)
NoCall == [n |-> 0, name |-> "", args |-> <<>>, invoked |-> FALSE,
           toolThrew |-> FALSE, toolResult |-> <<>>, threw |-> FALSE,
           result |-> <<>>]

Call(name, args, ran, toolThrew, toolResult, result) ==
  [n |-> toolCall.n + 1, name |-> name, args |-> args, invoked |-> ran,
   toolThrew |-> toolThrew, toolResult |-> toolResult, threw |-> FALSE,
   result |-> result]

EditArgs ==
  { [path |-> Str(p), old_text |-> Str(old), new_text |-> Str(new)] :
      p \in {<<"ws", "f.txt">>, <<"ws", "missing.txt">>, <<"ws", "..", "etc", "x">>},
      old \in {<<"a">>, <<"a", "a">>, <<>>, <<"c">>},
      new \in {<<"b">>} }
  \cup { [path |-> Str(<<"ws", "f.txt">>), new_text |-> Str(<<"b">>)],
         [path |-> Str(<<"ws", "f.txt">>), old_text |-> Num(<<"1">>), new_text |-> Str(<<"b">>)] }

ExecCommands ==
  { <<"l", "s">>,
    <<"r", "m", " ", "-", "r", "f", " ", "/">>,
    <<"R", "M", " ", "-", "R", "F", " ", "/">>,
    <<"r", "e", "b", "o", "o", "t">>,
    <<":", "(", ")", "{", " ", ":", "|", ":", "&", " ", "}", ";", ":">>,
    <<"c", "a", "t", " ", ".", ".", "/", "x">>,
    <<"c", "a", "t", " ", "/", "e", "t", "c", "/", "x">> }

ExecArgs ==
  { [command |-> Str(c)] : c \in ExecCommands }
  \cup { [command |-> Str(<<"l", "s">>), working_dir |-> Str(<<"tmp">>)],
         [command |-> Num(<<"1">>)], [working_dir |-> Str(<<"tmp">>)] }

McpArgs == { [text |-> Str(<<"p", "i", "n", "g">>)] }

ArgsOf(name) ==
  CASE name = "edit_file" -> EditArgs
    [] name = "exec" -> ExecArgs
    [] OTHER -> McpArgs

\* ToolRegistry.execute(name, args), the tool's own execute included
registryExecute ==
  /\ toolCall.n < MaxToolCalls
  /\ UNCHANGED <<busVars, agentVars, subVars, restrictToWorkspace, cronVars,
                 hbVars>>
  /\ \E name \in DOMAIN Schemas \cup {"nonexistent"} : \E args \in ArgsOf(name) :
    IF name \notin DOMAIN Schemas
    THEN /\ toolCall' = Call(name, args, FALSE, FALSE, <<>>,
                             <<"Error: Tool '", name, "' not found.">>)
         /\ UNCHANGED <<files, shells>>
    ELSE LET issues == issuesOf(Schemas[name].fields, args)
             validated == parsed(Schemas[name], args)
         IN  IF issues # <<>>
             THEN /\ toolCall' = Call(name, args, FALSE, FALSE, <<>>,
                                      InvalidParameters(issues))
                  /\ UNCHANGED <<files, shells>>
             ELSE CASE name = "edit_file" ->
                         \E r \in {editFile(files, validated, restrictToWorkspace)} :
                           /\ files' = r.files
                           /\ toolCall' = Call(name, args, TRUE, FALSE, r.result, r.result)
                           /\ UNCHANGED shells
                    [] name = "exec" ->
                         \E run \in ProcessRuns :
                           \E r \in {exec(shells, validated, restrictToWorkspace, run)} :
                             /\ shells' = r.shells
                             /\ toolCall' = Call(name, args, TRUE, FALSE, r.result, r.result)
                             /\ UNCHANGED files
                    [] OTHER ->
                         \E call \in McpCalls :
                           \E r \in {mcpExecute(call)} :
                             /\ toolCall' =
                                  Call(name, args, TRUE, r.threw,
                                       IF r.threw THEN <<>> ELSE r.message,
                                       IF r.threw THEN caught(name, r) ELSE r.message)
                             /\ UNCHANGED <<files, shells>>

InitialFiles ==
  [p \in FilePaths |->
     CASE p = <<"ws", "f.txt">> -> Content(<<"a", "a", "a">>)
       [] p = <<"etc", "x">> -> Content(<<"c">>)
       [] OTHER -> NoContent]

ToolsIdle ==
  /\ files = InitialFiles
  /\ shells = {}
  /\ toolCall = NoCall
  /\ restrictToWorkspace = FALSE

\* ------------------------------------------------------------ CronService
\* Times are whole numbers of a time unit, counted from 1; NoTime is null.
NoTime == -1
JobIds == 1..MaxJobs
Threads == 1..MaxThreads

\* payload.channel and payload.to are null when addJob was given none
NoChat == <<>>
NoPayload == [message |-> "", deliver |-> FALSE, channel |-> Null, to |-> NoChat]

NoJob == [id |-> 0, enabled |-> FALSE, kind |-> "", atMs |-> NoTime,
          everyMs |-> NoTime, expr |-> "", deleteAfterRun |-> FALSE,
          payload |-> NoPayload,
          nextRunAtMs |-> NoTime, lastRunAtMs |-> NoTime, lastStatus |-> Null,
          lastError |-> Null]

NoStore == [loaded |-> FALSE, jobs |-> <<>>]
NoStoreFile == [exists |-> FALSE, jobs |-> <<>>]
NoTimer == [armed |-> FALSE, at |-> NoTime]
IdleThread == [pc |-> "idle", kind |-> "", job |-> 0, rest |-> <<>>,
               startMs |-> NoTime, force |-> FALSE]
NoReturn == [op |-> "", jobId |-> 0, force |-> FALSE, value |-> FALSE,
             jobs |-> 0, nextWakeAtMs |-> NoTime]

\* what runJob(jobId, force) returns
RunJobReturn(jobId, force, value) ==
  [NoReturn EXCEPT !.op = "runJob", !.jobId = jobId, !.force = force,
                   !.value = value]

\* the next minute, which is what cron-parser answers for "* * * * *"
Minute == 1

\* computeNextRun with the interval of an `every` schedule left out
computeNextRunNoInterval(schedule, now) ==
  CASE schedule.kind = "at" ->
         IF schedule.atMs # NoTime /\ schedule.atMs # 0 /\ schedule.atMs > now
         THEN schedule.atMs ELSE NoTime
    [] schedule.kind = "every" ->
         IF schedule.everyMs # NoTime /\ schedule.everyMs # 0 /\ schedule.everyMs > 0
         THEN now ELSE NoTime
    [] OTHER -> NoTime

\* computeNextRun(schedule, now)
computeNextRun(schedule, now) ==
  CASE schedule.kind = "at" ->
         IF schedule.atMs # NoTime /\ schedule.atMs # 0 /\ schedule.atMs > now
         THEN schedule.atMs ELSE NoTime
    [] schedule.kind = "every" ->
         IF schedule.everyMs # NoTime /\ schedule.everyMs # 0 /\ schedule.everyMs > 0
         THEN now + schedule.everyMs ELSE NoTime
    [] schedule.kind = "cron" /\ schedule.expr # "" ->
         IF schedule.expr = "* * * * *" THEN now + Minute ELSE NoTime
    [] OTHER -> NoTime

Min(set) == CHOOSE x \in set : \A y \in set : x <= y

\* CronService.loadStore: the store and the job objects afterwards
loadStore(store, objs, disk) ==
  IF store.loaded THEN [store |-> store, jobs |-> objs]
  ELSE [store |-> [loaded |-> TRUE,
                   jobs |-> [i \in 1..Len(disk.jobs) |-> disk.jobs[i].id]],
        jobs |-> [id \in JobIds |->
                    IF \E i \in 1..Len(disk.jobs) : disk.jobs[i].id = id
                    THEN disk.jobs[CHOOSE i \in 1..Len(disk.jobs) :
                                     disk.jobs[i].id = id]
                    ELSE objs[id]]]

\* CronService.saveStore: the store file afterwards
saveStore(store, objs, disk) ==
  IF ~store.loaded THEN disk
  ELSE [exists |-> TRUE, jobs |-> [i \in 1..Len(store.jobs) |-> objs[store.jobs[i]]]]

\* CronService.recomputeNextRuns
recomputeNextRuns(store, objs, now) ==
  [id \in JobIds |->
     IF id \in Range(store.jobs) /\ objs[id].enabled
     THEN [objs[id] EXCEPT !.nextRunAtMs = computeNextRun(objs[id], now)]
     ELSE objs[id]]

\* CronService.getNextWakeMs
getNextWakeMs(store, objs) ==
  LET times == { objs[id].nextRunAtMs : id \in
                   { i \in Range(store.jobs) :
                       objs[i].enabled /\ objs[i].nextRunAtMs # NoTime } }
  IN  IF store.loaded /\ times # {} THEN Min(times) ELSE NoTime

\* CronService.armTimer: the timer afterwards, with the time it is set for
armTimer(store, objs, running, now) ==
  LET nextWake == getNextWakeMs(store, objs) IN
  IF nextWake = NoTime \/ nextWake = 0 \/ ~running THEN NoTimer
  ELSE [armed |-> TRUE,
        at |-> now + (IF nextWake - now > 0 THEN nextWake - now ELSE 0)]

\* Array.prototype.filter over the job list
RECURSIVE filterJobs(_, _)
filterJobs(ids, keep) ==
  IF ids = <<>> THEN <<>>
  ELSE (IF Head(ids) \in keep THEN <<Head(ids)>> ELSE <<>>)
       \o filterJobs(Tail(ids), keep)

\* the jobs onTimer finds due
dueJobs(store, objs, now) ==
  filterJobs(store.jobs,
             { id \in JobIds : /\ objs[id].enabled
                               /\ objs[id].nextRunAtMs # NoTime
                               /\ now >= objs[id].nextRunAtMs })

\* what the onJob callback may do
JobOutcomes == {"ok", "Error: test failure"}

\* executeJob without its catch block's record of the failure
executeJobEndUnrecorded(store, objs, id, startMs, outcome, now) ==
  LET job == objs[id]
      ran == [job EXCEPT !.lastStatus = "ok", !.lastError = Null,
                         !.lastRunAtMs = startMs]
  IN  IF job.kind = "at"
      THEN IF job.deleteAfterRun
           THEN [store |-> [store EXCEPT !.jobs = filterJobs(@, JobIds \ {id})],
                 jobs |-> [objs EXCEPT ![id] = ran]]
           ELSE [store |-> store,
                 jobs |-> [objs EXCEPT ![id] =
                             [ran EXCEPT !.enabled = FALSE, !.nextRunAtMs = NoTime]]]
      ELSE [store |-> store,
            jobs |-> [objs EXCEPT ![id] =
                        [ran EXCEPT !.nextRunAtMs = computeNextRun(job, now)]]]

\* CronService.executeJob after the await: the job object and the job list
executeJobEnd(store, objs, id, startMs, outcome, now) ==
  LET job == objs[id]
      ran == [job EXCEPT
                !.lastStatus = IF outcome = "ok" THEN "ok" ELSE "error",
                !.lastError = IF outcome = "ok" THEN Null ELSE outcome,
                !.lastRunAtMs = startMs]
  IN  IF job.kind = "at"
      THEN IF job.deleteAfterRun
           THEN [store |-> [store EXCEPT !.jobs = filterJobs(@, JobIds \ {id})],
                 jobs |-> [objs EXCEPT ![id] = ran]]
           ELSE [store |-> store,
                 jobs |-> [objs EXCEPT ![id] =
                             [ran EXCEPT !.enabled = FALSE, !.nextRunAtMs = NoTime]]]
      ELSE [store |-> store,
            jobs |-> [objs EXCEPT ![id] =
                        [ran EXCEPT !.nextRunAtMs = computeNextRun(job, now)]]]

\* the comparator with null taken for 0 in place of Infinity
compareJobsNullFirst(a, b) ==
  CASE a.nextRunAtMs = NoTime /\ b.nextRunAtMs = NoTime -> 0
    [] a.nextRunAtMs = NoTime -> -1
    [] b.nextRunAtMs = NoTime -> 1
    [] a.nextRunAtMs < b.nextRunAtMs -> -1
    [] a.nextRunAtMs > b.nextRunAtMs -> 1
    [] OTHER -> 0

\* the comparator of listJobs: a.nextRunAtMs ?? Infinity minus the same of b,
\* as a sign; Infinity - Infinity is NaN, which sort takes for 0
compareJobs(a, b) ==
  CASE a.nextRunAtMs = NoTime /\ b.nextRunAtMs = NoTime -> 0
    [] a.nextRunAtMs = NoTime -> 1
    [] b.nextRunAtMs = NoTime -> -1
    [] a.nextRunAtMs < b.nextRunAtMs -> -1
    [] a.nextRunAtMs > b.nextRunAtMs -> 1
    [] OTHER -> 0

\* Array.prototype.sort, which is stable: insertion from the left
RECURSIVE insertJob(_, _, _)
insertJob(sorted, id, objs) ==
  IF sorted = <<>> THEN <<id>>
  ELSE IF compareJobs(objs[Head(sorted)], objs[id]) <= 0
       THEN <<Head(sorted)>> \o insertJob(Tail(sorted), id, objs)
       ELSE <<id>> \o sorted

RECURSIVE sortJobs(_, _, _)
sortJobs(ids, objs, sorted) ==
  IF ids = <<>> THEN sorted
  ELSE sortJobs(Tail(ids), objs, insertJob(sorted, Head(ids), objs))

cronFrame == UNCHANGED <<busVars, agentVars, subVars, toolVars, hbVars>>

\* Date.now() advances
tick ==
  /\ clock < MaxTime
  /\ clock' = clock + 1
  /\ UNCHANGED <<cronRunning, cronStore, cronJobs, cronTimer, cronThreads,
                 cronDisk, cronCalls, onJobCalls, listed>>
  /\ cronReturned' = NoReturn
  /\ cronFrame

\* CronService.start()
cronStart ==
  /\ cronCalls < MaxCronCalls
  /\ ~cronRunning
  /\ cronCalls' = cronCalls + 1
  /\ cronRunning' = TRUE
  /\ \E l \in {loadStore(cronStore, cronJobs, cronDisk)} :
       \E objs \in {recomputeNextRuns(l.store, l.jobs, clock)} :
         /\ cronStore' = l.store
         /\ cronJobs' = objs
         /\ cronDisk' = saveStore(l.store, objs, cronDisk)
         /\ cronTimer' = armTimer(l.store, objs, TRUE, clock)
  /\ UNCHANGED <<clock, cronThreads, onJobCalls, listed>>
  /\ cronReturned' = NoReturn
  /\ cronFrame

\* CronService.stop()
cronStop ==
  /\ cronCalls < MaxCronCalls
  /\ cronRunning
  /\ cronCalls' = cronCalls + 1
  /\ cronRunning' = FALSE
  /\ cronTimer' = NoTimer
  /\ UNCHANGED <<clock, cronStore, cronJobs, cronThreads, cronDisk, onJobCalls,
                 listed>>
  /\ cronReturned' = NoReturn
  /\ cronFrame

\* the message of a job and where its answer is to go: a chat of a channel,
\* or nowhere (deliver, channel and to left out)
Reminder == [message |-> "hello", deliver |-> TRUE, channel |-> "tg",
             to |-> <<"1">>]
Silent == [message |-> "hello", deliver |-> FALSE, channel |-> Null,
           to |-> NoChat]

\* the schedules addJob is called with
Schedules ==
  { [kind |-> "at", atMs |-> AtMs, everyMs |-> NoTime, expr |-> "",
     deleteAfterRun |-> FALSE] @@ Silent,
    [kind |-> "at", atMs |-> AtMs, everyMs |-> NoTime, expr |-> "",
     deleteAfterRun |-> TRUE] @@ Silent,
    [kind |-> "every", atMs |-> NoTime, everyMs |-> EveryMs, expr |-> "",
     deleteAfterRun |-> FALSE] @@ Silent }

newJob(id, options, now) ==
  [id |-> id, enabled |-> TRUE, kind |-> options.kind, atMs |-> options.atMs,
   everyMs |-> options.everyMs, expr |-> options.expr,
   deleteAfterRun |-> options.deleteAfterRun,
   payload |-> [message |-> options.message, deliver |-> options.deliver,
                channel |-> options.channel, to |-> options.to],
   nextRunAtMs |-> computeNextRun(options, now), lastRunAtMs |-> NoTime,
   lastStatus |-> Null, lastError |-> Null]

\* CronService.addJob(options); the id is one no job has had
addJob ==
  /\ cronCalls < MaxCronCalls
  /\ cronCalls' = cronCalls + 1
  /\ \E options \in Schedules :
       \E l \in {loadStore(cronStore, cronJobs, cronDisk)} :
         /\ \E id \in JobIds : l.jobs[id] = NoJob
         /\ LET id == Min({ i \in JobIds : l.jobs[i] = NoJob })
                objs == [l.jobs EXCEPT ![id] = newJob(id, options, clock)]
                store == [l.store EXCEPT !.jobs = Append(@, id)]
            IN  /\ cronStore' = store
                /\ cronJobs' = objs
                /\ cronDisk' = saveStore(store, objs, cronDisk)
                /\ cronTimer' = armTimer(store, objs, cronRunning, clock)
  /\ UNCHANGED <<clock, cronRunning, cronThreads, onJobCalls, listed>>
  /\ cronReturned' = NoReturn
  /\ cronFrame

\* CronService.removeJob(jobId)
removeJob ==
  /\ cronCalls < MaxCronCalls
  /\ cronCalls' = cronCalls + 1
  /\ \E jobId \in JobIds :
       \E l \in {loadStore(cronStore, cronJobs, cronDisk)} :
         LET store == [l.store EXCEPT !.jobs = filterJobs(@, JobIds \ {jobId})]
             removed == Len(store.jobs) < Len(l.store.jobs)
         IN  /\ cronStore' = store
             /\ cronJobs' = l.jobs
             /\ cronDisk' = IF removed THEN saveStore(store, l.jobs, cronDisk)
                            ELSE cronDisk
             /\ cronTimer' = IF removed
                             THEN armTimer(store, l.jobs, cronRunning, clock)
                             ELSE cronTimer
  /\ UNCHANGED <<clock, cronRunning, cronThreads, onJobCalls, listed>>
  /\ cronReturned' = NoReturn
  /\ cronFrame

\* CronService.enableJob(jobId, enabled)
enableJob ==
  /\ cronCalls < MaxCronCalls
  /\ cronCalls' = cronCalls + 1
  /\ \E jobId \in JobIds, enabled \in BOOLEAN :
       \E l \in {loadStore(cronStore, cronJobs, cronDisk)} :
         IF jobId \in Range(l.store.jobs)
         THEN LET objs == [l.jobs EXCEPT ![jobId] =
                            [@ EXCEPT !.enabled = enabled,
                                      !.nextRunAtMs =
                                        IF enabled
                                        THEN computeNextRun(l.jobs[jobId], clock)
                                        ELSE NoTime]]
              IN  /\ cronStore' = l.store
                  /\ cronJobs' = objs
                  /\ cronDisk' = saveStore(l.store, objs, cronDisk)
                  /\ cronTimer' = armTimer(l.store, objs, cronRunning, clock)
         ELSE /\ cronStore' = l.store
              /\ cronJobs' = l.jobs
              /\ UNCHANGED <<cronDisk, cronTimer>>
  /\ UNCHANGED <<clock, cronRunning, cronThreads, onJobCalls, listed>>
  /\ cronReturned' = NoReturn
  /\ cronFrame

\* executeJob(job) up to its await: onJob(job) is called
executeJobStart(t, kind, id, rest, calls, force) ==
  /\ cronThreads' = [cronThreads EXCEPT ![t] =
                       [pc |-> "awaiting", kind |-> kind, job |-> id,
                        rest |-> rest, startMs |-> clock, force |-> force]]
  /\ onJobCalls' = [calls EXCEPT ![id][kind] = @ + 1]

\* the test of runJob on the job found: negation of !force && !job.enabled
mayRunEnabledOnly(job, force) == job.enabled

mayRun(job, force) == force \/ job.enabled

\* CronService.runJob(jobId, force) up to the await of executeJob, or to its
\* return false
runJob ==
  /\ cronCalls < MaxCronCalls
  /\ cronCalls' = cronCalls + 1
  /\ \E jobId \in JobIds, force \in BOOLEAN :
       \E l \in {loadStore(cronStore, cronJobs, cronDisk)} :
         /\ cronStore' = l.store
         /\ cronJobs' = l.jobs
         /\ IF jobId \in Range(l.store.jobs) /\ mayRun(l.jobs[jobId], force)
            THEN /\ \E t \in Threads :
                      /\ cronThreads[t].pc = "idle"
                      /\ \A u \in Threads : u < t => cronThreads[u].pc # "idle"
                      /\ executeJobStart(t, "run", jobId, <<>>, onJobCalls,
                                         force)
                 /\ cronReturned' = NoReturn
            ELSE /\ cronReturned' = RunJobReturn(jobId, force, FALSE)
                 /\ UNCHANGED <<cronThreads, onJobCalls>>
  /\ UNCHANGED <<clock, cronRunning, cronTimer, cronDisk, listed>>
  /\ cronFrame

\* the timeout set by armTimer expires: CronService.onTimer up to its first
\* await, or to its end when no job is due
onTimer ==
  /\ cronTimer.armed
  /\ clock >= cronTimer.at
  /\ cronStore.loaded
  /\ LET due == dueJobs(cronStore, cronJobs, clock) IN
     IF due = <<>>
     THEN /\ cronDisk' = saveStore(cronStore, cronJobs, cronDisk)
          /\ cronTimer' = armTimer(cronStore, cronJobs, cronRunning, clock)
          /\ UNCHANGED <<cronThreads, onJobCalls>>
     ELSE /\ \E t \in Threads :
               /\ cronThreads[t].pc = "idle"
               /\ \A u \in Threads : u < t => cronThreads[u].pc # "idle"
               /\ executeJobStart(t, "timer", Head(due), Tail(due), onJobCalls,
                                  FALSE)
          /\ cronTimer' = NoTimer
          /\ UNCHANGED cronDisk
  /\ UNCHANGED <<clock, cronRunning, cronStore, cronJobs, cronCalls, listed>>
  /\ cronReturned' = NoReturn
  /\ cronFrame

\* onJob settles: the rest of executeJob, then the next due job of onTimer, or
\* saveStore and armTimer at the end of onTimer and of runJob
jobSettles ==
  /\ \E t \in Threads, outcome \in JobOutcomes :
       /\ cronThreads[t].pc = "awaiting"
       /\ \E e \in {executeJobEnd(cronStore, cronJobs, cronThreads[t].job,
                                  cronThreads[t].startMs, outcome, clock)},
             calls \in {[onJobCalls EXCEPT ![cronThreads[t].job].threw =
                           IF outcome = "ok" THEN @ ELSE @ + 1]} :
            /\ cronStore' = e.store
            /\ cronJobs' = e.jobs
            /\ IF cronThreads[t].rest # <<>>
               THEN /\ executeJobStart(t, cronThreads[t].kind,
                                       Head(cronThreads[t].rest),
                                       Tail(cronThreads[t].rest), calls,
                                       cronThreads[t].force)
                    /\ UNCHANGED <<cronDisk, cronTimer>>
                    /\ cronReturned' = NoReturn
               ELSE /\ cronThreads' = [cronThreads EXCEPT ![t] = IdleThread]
                    /\ cronDisk' = saveStore(e.store, e.jobs, cronDisk)
                    /\ cronTimer' = armTimer(e.store, e.jobs, cronRunning, clock)
                    /\ onJobCalls' = calls
                    /\ cronReturned' =
                         IF cronThreads[t].kind = "run"
                         THEN RunJobReturn(cronThreads[t].job,
                                           cronThreads[t].force, TRUE)
                         ELSE NoReturn
  /\ UNCHANGED <<clock, cronRunning, cronCalls, listed>>
  /\ cronFrame

NoListing == [call |-> 0, includeDisabled |-> FALSE, jobs |-> <<>>]

\* CronService.listJobs(includeDisabled): sort works in place, on the job list
\* itself when includeDisabled is true
listJobs ==
  /\ cronCalls < MaxCronCalls
  /\ cronCalls' = cronCalls + 1
  /\ \E includeDisabled \in BOOLEAN :
       \E l \in {loadStore(cronStore, cronJobs, cronDisk)} :
         LET jobs == IF includeDisabled THEN l.store.jobs
                     ELSE filterJobs(l.store.jobs,
                                     { id \in JobIds : l.jobs[id].enabled })
             sorted == sortJobs(jobs, l.jobs, <<>>)
         IN  /\ listed' = [call |-> cronCalls + 1,
                           includeDisabled |-> includeDisabled, jobs |-> sorted]
             /\ cronStore' = IF includeDisabled
                             THEN [l.store EXCEPT !.jobs = sorted]
                             ELSE l.store
             /\ cronJobs' = l.jobs
  /\ UNCHANGED <<clock, cronRunning, cronTimer, cronThreads, cronDisk,
                 onJobCalls>>
  /\ cronReturned' = NoReturn
  /\ cronFrame

\* CronService.status()
status ==
  /\ cronCalls < MaxCronCalls
  /\ cronCalls' = cronCalls + 1
  /\ \E l \in {loadStore(cronStore, cronJobs, cronDisk)} :
       /\ cronStore' = l.store
       /\ cronJobs' = l.jobs
       /\ cronReturned' = [NoReturn EXCEPT
                             !.op = "status",
                             !.value = cronRunning,
                             !.jobs = Len(l.store.jobs),
                             !.nextWakeAtMs = getNextWakeMs(l.store, l.jobs)]
  /\ UNCHANGED <<clock, cronRunning, cronTimer, cronThreads, cronDisk,
                 onJobCalls, listed>>
  /\ cronFrame

\* ------------------------------------------------------- HeartbeatService
\* String.prototype.trim
RECURSIVE trimStart(_)
trimStart(s) ==
  IF s # <<>> /\ Head(s) \in Space THEN trimStart(Tail(s)) ELSE s

RECURSIVE trimEnd(_)
trimEnd(s) ==
  IF s # <<>> /\ s[Len(s)] \in Space THEN trimEnd(SubSeq(s, 1, Len(s) - 1))
  ELSE s

trim(s) == trimEnd(trimStart(s))

\* /^[-*] \[[ x]\]/
CheckboxPattern ==
  <<Some({"-", "*"}, 1, 1)>> \o Lit(<<" ", "[">>) \o <<Some({" ", "x"}, 1, 1)>>
  \o Lit(<<"]">>)

\* the loop of isHeartbeatEmpty over the lines
RECURSIVE linesEmpty(_)
linesEmpty(lines) ==
  IF lines = <<>> THEN TRUE
  ELSE LET trimmed == trim(Head(lines)) IN
       IF trimmed = <<>> THEN linesEmpty(Tail(lines))
       ELSE IF startsWith(trimmed, <<"#">>) THEN linesEmpty(Tail(lines))
       ELSE IF startsWith(trimmed, <<"<", "!", "-", "-">>)
            THEN linesEmpty(Tail(lines))
       ELSE IF matchHere(CheckboxPattern, trimmed, 0) THEN FALSE
       ELSE IF Len(trimmed) > 0 THEN FALSE
       ELSE linesEmpty(Tail(lines))

\* the loop of isHeartbeatEmpty without the trim of the line
RECURSIVE linesEmptyUntrimmed(_)
linesEmptyUntrimmed(lines) ==
  IF lines = <<>> THEN TRUE
  ELSE LET trimmed == Head(lines) IN
       IF trimmed = <<>> THEN linesEmptyUntrimmed(Tail(lines))
       ELSE IF startsWith(trimmed, <<"#">>) THEN linesEmptyUntrimmed(Tail(lines))
       ELSE IF startsWith(trimmed, <<"<", "!", "-", "-">>)
            THEN linesEmptyUntrimmed(Tail(lines))
       ELSE FALSE

\* isHeartbeatEmpty with the lines taken as they are
isHeartbeatEmptyUntrimmed(content) ==
  IF content.null \/ content.text = <<>> THEN TRUE
  ELSE linesEmptyUntrimmed(split(content.text, <<"\n">>))

\* isHeartbeatEmpty(content), content being null or a text
isHeartbeatEmpty(content) ==
  IF content.null \/ content.text = <<>> THEN TRUE
  ELSE linesEmpty(split(content.text, <<"\n">>))

\* HEARTBEAT.md as it may be found: missing, or with one of these contents
NoHeartbeatFile == [exists |-> FALSE, content |-> <<>>]

HeartbeatContents ==
  { <<>>,
    <<"#", " ", "T", "\n", "\n">>,
    <<"#", " ", "T", "\n", "\n", "-", " ", "[", " ", "]", " ", "X", "\n">>,
    <<" ", "\t", "\n", "<", "!", "-", "-", " ", "c", "\n", " ", "#", "h">>,
    <<"*", " ", "[", "x", "]">>,
    <<"-", " ", "[", "X", "]">>,
    <<"\n", "d", "o">>,
    <<"#", " ", "-", " ", "[", " ", "]">> }

HeartbeatFiles ==
  {NoHeartbeatFile} \cup { [exists |-> TRUE, content |-> c] : c \in HeartbeatContents }

\* HeartbeatService.readHeartbeatFile
readHeartbeatFile(file) ==
  [null |-> ~file.exists, text |-> IF file.exists THEN file.content ELSE <<>>]

\* a handle no pending timeout and no field holds
freshTimeout(timer, timeouts) ==
  Min({ i \in 1..(Cardinality(timeouts) + 2) :
          i # timer /\ \A to \in timeouts : to.id # i })

\* HeartbeatService.scheduleNext
scheduleNext(running, timer, timeouts, now) ==
  IF ~running THEN [timer |-> timer, timeouts |-> timeouts]
  ELSE LET id == freshTimeout(timer, timeouts) IN
       [timer |-> id,
        timeouts |-> timeouts \cup {[id |-> id, at |-> now + IntervalS]}]

hbFrame ==
  UNCHANGED <<busVars, agentVars, subVars, toolVars, cronVars, hbEnabled,
              hbHandler>>

\* HeartbeatService.start()
heartbeatStart ==
  /\ hbCalls < MaxHbCalls
  /\ hbCalls' = hbCalls + 1
  /\ IF ~hbEnabled
     THEN UNCHANGED <<hbRunning, hbTimer, hbTimeouts>>
     ELSE \E n \in {scheduleNext(TRUE, hbTimer, hbTimeouts, clock)} :
            /\ hbRunning' = TRUE
            /\ hbTimer' = n.timer
            /\ hbTimeouts' = n.timeouts
  /\ UNCHANGED <<hbAwaiting, hbFile, hbLast>>
  /\ hbFrame

\* HeartbeatService.stop()
heartbeatStop ==
  /\ hbCalls < MaxHbCalls
  /\ hbCalls' = hbCalls + 1
  /\ hbRunning' = FALSE
  /\ hbTimer' = 0
  /\ hbTimeouts' = { to \in hbTimeouts : to.id # hbTimer }
  /\ UNCHANGED <<hbAwaiting, hbFile, hbLast>>
  /\ hbFrame

\* a timeout expires: HeartbeatService.tick up to its await, or to its end
heartbeatTick ==
  /\ \E to \in hbTimeouts :
       /\ clock >= to.at
       /\ LET pending == hbTimeouts \ {to}
              content == readHeartbeatFile(hbFile)
          IN  IF ~hbRunning
              THEN /\ hbLast' = "stopped"
                   /\ hbTimeouts' = pending
                   /\ UNCHANGED <<hbTimer, hbAwaiting>>
              ELSE IF isHeartbeatEmpty(content) \/ ~hbHandler
              THEN \E n \in {scheduleNext(hbRunning, hbTimer, pending, clock)} :
                     /\ hbLast' = IF isHeartbeatEmpty(content) THEN "skipped"
                                  ELSE "no handler"
                     /\ hbTimer' = n.timer
                     /\ hbTimeouts' = n.timeouts
                     /\ UNCHANGED hbAwaiting
              ELSE /\ hbLast' = "invoked"
                   /\ hbAwaiting' = hbAwaiting + 1
                   /\ hbTimeouts' = pending
                   /\ UNCHANGED hbTimer
  /\ UNCHANGED <<hbRunning, hbFile, hbCalls>>
  /\ hbFrame

\* onHeartbeat settles, its promise fulfilled or rejected: the rest of tick
heartbeatSettles ==
  /\ hbAwaiting > 0
  /\ hbAwaiting' = hbAwaiting - 1
  /\ \E outcome \in {"returned", "threw"} : hbLast' = outcome
  /\ \E n \in {scheduleNext(hbRunning, hbTimer, hbTimeouts, clock)} :
       /\ hbTimer' = n.timer
       /\ hbTimeouts' = n.timeouts
  /\ UNCHANGED <<hbRunning, hbFile, hbCalls>>
  /\ hbFrame

\* somebody edits, writes or deletes HEARTBEAT.md
heartbeatFileChanges ==
  /\ hbFile' \in HeartbeatFiles \ {hbFile}
  /\ UNCHANGED <<hbRunning, hbTimer, hbTimeouts, hbAwaiting, hbCalls, hbLast>>
  /\ hbFrame

HeartbeatIdle ==
  /\ hbEnabled = TRUE
  /\ hbHandler = TRUE
  /\ hbRunning = FALSE
  /\ hbTimer = 0
  /\ hbTimeouts = {}
  /\ hbAwaiting = 0
  /\ hbFile = NoHeartbeatFile
  /\ hbCalls = 0
  /\ hbLast = ""

CronIdle ==
  /\ clock = 1
  /\ cronRunning = FALSE
  /\ cronStore = NoStore
  /\ cronJobs = [id \in JobIds |-> NoJob]
  /\ cronTimer = NoTimer
  /\ cronThreads = [t \in Threads |-> IdleThread]
  /\ cronDisk = NoStoreFile
  /\ cronCalls = 0
  /\ onJobCalls = [id \in JobIds |-> [timer |-> 0, run |-> 0, threw |-> 0]]
  /\ listed = NoListing
  /\ cronReturned = NoReturn

SideIdle == ToolsIdle /\ CronIdle /\ HeartbeatIdle

\* --------------------------------------------------- the agent runtime
Init ==
  /\ BusInit
  /\ activeConsumers = {"loop"}
  /\ AgentInit
  /\ maxIterations = MaxIterations
  /\ providerAnswers = FewResponses
  /\ subAnswers = SubResponses
  /\ SideIdle

Next ==
  \/ publishInbound
  \/ consumeTimeout
  \/ agentRun
  \/ agentStop
  \/ runLoopTop
  \/ runLoopTimeout
  \/ runLoopProcess
  \/ processDirect
  \/ chatAnswers
  \/ chatThrows
  \/ toolSettles
  \/ consolidationSettles

Spec == Init /\ [][Next]_vars

\* the run loop as the only caller of processMessage
NextRun ==
  \/ publishInbound
  \/ consumeTimeout
  \/ agentRun
  \/ agentStop
  \/ runLoopTop
  \/ runLoopTimeout
  \/ runLoopProcess
  \/ chatAnswers
  \/ chatThrows
  \/ toolSettles
  \/ consolidationSettles

SpecRun == Init /\ [][NextRun]_vars

\* the gateway: the run loop and the outbound dispatcher side by side, each
\* await settling in the end (timers fire, the provider, the tools and the
\* channel handlers answer or throw)
NextStop ==
  \/ NextRun
  \/ startAll
  \/ dispatchNext
  \/ dispatchWake
  \/ dispatchHandlerSettles
  \/ busStop

\* the steps run() takes by itself: an await of it settles and it runs on
\* to the next await
runSteps ==
  \/ runLoopTop
  \/ runLoopTimeout
  \/ runLoopProcess
  \/ consumeTimeout
  \/ chatAnswers
  \/ chatThrows
  \/ toolSettles

\* the steps dispatchOutbound() takes by itself
dispatchSteps ==
  \/ dispatchNext
  \/ dispatchWake
  \/ dispatchHandlerSettles

\* neither of the two async functions stays at an await for ever
FairStop == WF_vars(runSteps) /\ WF_vars(dispatchSteps)

SpecStop == Init /\ [][NextStop]_vars /\ FairStop

\* one tool loop of the agent, entered through processDirect, with any
\* configured ceiling and a provider that can give every answer
InitLoop ==
  /\ BusInit
  /\ activeConsumers = {}
  /\ AgentInit
  /\ maxIterations \in 1..MaxLoopIterations
  /\ providerAnswers = Responses
  /\ subAnswers = SubResponses
  /\ SideIdle

NextLoop ==
  \/ processDirect
  \/ chatAnswers
  \/ chatThrows
  \/ toolSettles

SpecLoop == InitLoop /\ [][NextLoop]_vars

\* the two tool loops side by side: an agent turn entered through
\* processDirect under any configured ceiling, and sub-agents in the
\* background, with a provider that may ask for a tool on every call
InitCeiling ==
  /\ BusInit
  /\ activeConsumers = {}
  /\ AgentInit
  /\ maxIterations \in 1..MaxLoopIterations
  /\ providerAnswers = FewResponses
  /\ subAnswers = SubResponses
  /\ SideIdle

NextCeiling ==
  \/ processDirect
  \/ chatAnswers
  \/ chatThrows
  \/ toolSettles
  \/ spawn
  \/ subChatAnswers
  \/ subChatThrows
  \/ subToolSettles

SpecCeiling == InitCeiling /\ [][NextCeiling]_vars


\* sub-agents whose provider asks for the tools of the main agent, next to
\* an agent turn that answers with a text
InitRegistry ==
  /\ BusInit
  /\ activeConsumers = {}
  /\ AgentInit
  /\ maxIterations = MaxIterations
  /\ providerAnswers = {[content |-> "hi", toolCalls |-> <<>>]}
  /\ subAnswers = ForeignCalls
  /\ SideIdle

NextRegistry ==
  \/ processDirect
  \/ chatAnswers
  \/ chatThrows
  \/ spawn
  \/ subChatAnswers
  \/ subChatThrows
  \/ subToolSettles

SpecRegistry == InitRegistry /\ [][NextRegistry]_vars

\* the same, where every provider.chat call and every tool call of a
\* sub-agent settles at some time
subSteps == subChatAnswers \/ subChatThrows \/ subToolSettles

SpecSpawn == SpecRegistry /\ WF_vars(subSteps)

\* ------------------------------------------- a run after a restart
\* the length of a transcript that earlier runs could leave without any
\* consolidation having started: the first length above the memory window
\* is seen at the start of the turn after it
StoredLen == 2 * (MemoryWindow \div 2 + 1)

\* the transcript of StoredLen \div 2 answered messages
StoredTranscript ==
  [i \in 1..StoredLen |->
     IF i % 2 = 1 THEN [role |-> "user", content |-> "hello", toolsUsed |-> <<>>]
     ELSE [role |-> "assistant", content |-> "hi", toolsUsed |-> <<>>]]

\* the gateway starts with the session file of an earlier run on disk
InitMemory ==
  /\ BusInit
  /\ activeConsumers = {"loop"}
  /\ AgentStart
  /\ maxIterations = MaxIterations
  /\ providerAnswers = FewResponses
  /\ subAnswers = SubResponses
  /\ SideIdle
  /\ sessObjs = [i \in SessIds |-> NoSession]
  /\ sessCache = [k \in Keys |-> 0]
  /\ \E key \in Keys :
       sessDisk = save([f \in Files |-> NoFile],
                       [key |-> key, messages |-> StoredTranscript,
                        lastConsolidated |-> 0])

SpecMemory == InitMemory /\ [][NextRun]_vars

\* the same with POST /agent/message served next to the run loop
SpecRestart == InitMemory /\ [][Next]_vars

\* --------------------------------------- SessionManager on its own
\* transcript messages as Session.addMessage makes them: always a timestamp,
\* toolsUsed on a reply that used tools, toolCallId on a tool result
SampleMessages ==
  { [role |-> "user", content |-> "hello", timestamp |-> "09:00"],
    [role |-> "assistant", content |-> "hi", timestamp |-> "09:01",
     toolsUsed |-> <<"read_file">>],
    [role |-> "tool", content |-> "file content", timestamp |-> "09:02",
     toolCallId |-> "t2"] }

SampleTranscripts == UNION { [1..n -> SampleMessages] : n \in 0..MaxStored }

\* a session some earlier turns have left in the cache, not saved yet
InitManager ==
  /\ BusInit
  /\ activeConsumers = {}
  /\ AgentStart
  /\ maxIterations = MaxIterations
  /\ providerAnswers = FewResponses
  /\ subAnswers = SubResponses
  /\ SideIdle
  /\ sessDisk = [f \in Files |-> NoFile]
  /\ \E key \in Keys, messages \in SampleTranscripts, n \in 0..MaxStored :
       /\ sessObjs = [i \in SessIds |->
                        IF i = 2
                        THEN [key |-> key, messages |-> messages, lastConsolidated |-> n]
                        ELSE NoSession]
       /\ sessCache = [k \in Keys |-> IF k = key THEN 2 ELSE 0]

\* sessions.save(session) of a cached session
managerSave ==
  /\ \E k \in DOMAIN sessCache :
       /\ sessCache[k] # 0
       /\ sessDisk' = save(sessDisk, sessObjs[sessCache[k]])
  /\ UNCHANGED <<busVars, agentRunning, maxIterations, memoryWindow, runPc, turns,
                 consol, nDirect, toolContext, sessObjs, sessCache, historyMd,
                 memoryMd, providerAnswers, subAnswers>>
  /\ UNCHANGED <<subVars, sideVars>>

\* sessions.invalidate(key), or a new SessionManager after a restart
managerInvalidate ==
  /\ \E k \in DOMAIN sessCache :
       /\ sessCache' = invalidate(sessCache, k)
       /\ sessObjs' = collect(sessObjs, liveSids(turns, sessCache', consol))
  /\ UNCHANGED <<busVars, agentRunning, maxIterations, memoryWindow, runPc, turns,
                 consol, nDirect, toolContext, sessDisk, historyMd,
                 memoryMd, providerAnswers, subAnswers>>
  /\ UNCHANGED <<subVars, sideVars>>

\* sessions.getOrCreate(key)
managerGetOrCreate ==
  /\ \E k \in DOMAIN sessCache :
       LET g == getOrCreate(sessObjs, sessCache, sessDisk, k) IN
       /\ sessObjs' = g.objs
       /\ sessCache' = g.cache
  /\ UNCHANGED <<busVars, agentRunning, maxIterations, memoryWindow, runPc, turns,
                 consol, nDirect, toolContext, sessDisk, historyMd,
                 memoryMd, providerAnswers, subAnswers>>
  /\ UNCHANGED <<subVars, sideVars>>

NextManager ==
  \/ managerSave
  \/ managerInvalidate
  \/ managerGetOrCreate

SpecManager == InitManager /\ [][NextManager]_vars

\* session keys as POST /agent/message may give them: any string
DirectKeys == { <<"tg", ":", "1">>, <<"tg", "_", "1">>, <<"cli", ":", "direct">> }

\* a SessionManager that is asked for these keys; the session of one of
\* them is in the cache with one message, not saved yet
InitKeys ==
  /\ BusInit
  /\ activeConsumers = {}
  /\ AgentStart
  /\ maxIterations = MaxIterations
  /\ providerAnswers = FewResponses
  /\ subAnswers = SubResponses
  /\ SideIdle
  /\ sessDisk = [f \in { safeFilename(k) : k \in DirectKeys } |-> NoFile]
  /\ \E key \in DirectKeys :
       /\ sessObjs = [i \in SessIds |->
                        IF i = 1
                        THEN addMessage(newSession(key), "user", "hello", <<>>)
                        ELSE NoSession]
       /\ sessCache = [k \in DirectKeys |-> IF k = key THEN 1 ELSE 0]

\* session.clear() on a cached session
managerClear ==
  /\ \E k \in DOMAIN sessCache :
       /\ sessCache[k] # 0
       /\ sessObjs' = [sessObjs EXCEPT ![sessCache[k]] = clear(@)]
  /\ UNCHANGED <<busVars, agentRunning, maxIterations, memoryWindow, runPc, turns,
                 consol, nDirect, toolContext, sessCache, sessDisk, historyMd,
                 memoryMd, providerAnswers, subAnswers>>
  /\ UNCHANGED <<subVars, sideVars>>

NextKeys ==
  \/ managerSave
  \/ managerInvalidate
  \/ managerGetOrCreate
  \/ managerClear

SpecKeys == InitKeys /\ [][NextKeys]_vars

\* ------------------------------------------------- the tools on their own
RestIdle ==
  /\ BusInit
  /\ activeConsumers = {}
  /\ AgentInit
  /\ maxIterations = MaxIterations
  /\ providerAnswers = FewResponses
  /\ subAnswers = SubResponses

\* a workspace with two files, with or without the workspace restriction
InitTools ==
  /\ RestIdle
  /\ CronIdle
  /\ HeartbeatIdle
  /\ files = InitialFiles
  /\ shells = {}
  /\ toolCall = NoCall
  /\ restrictToWorkspace \in BOOLEAN

NextTools == registryExecute

SpecTools == InitTools /\ [][NextTools]_vars

\* ------------------------------------------- the cron service on its own
\* a store file as an earlier run has left it: an `every` job and an `at` job
StoredJobs ==
  [exists |-> TRUE,
   jobs |-> << newJob(1, [kind |-> "every", atMs |-> NoTime, everyMs |-> EveryMs,
                          expr |-> "", deleteAfterRun |-> FALSE] @@ Reminder, 1),
               newJob(2, [kind |-> "at", atMs |-> AtMs, everyMs |-> NoTime,
                          expr |-> "", deleteAfterRun |-> FALSE] @@ Silent, 1) >>]

\* a service just constructed, with no store file or with the one of an
\* earlier run
InitCron ==
  /\ RestIdle
  /\ ToolsIdle
  /\ HeartbeatIdle
  /\ clock = 1
  /\ cronRunning = FALSE
  /\ cronStore = NoStore
  /\ cronJobs = [id \in JobIds |-> NoJob]
  /\ cronTimer = NoTimer
  /\ cronThreads = [t \in Threads |-> IdleThread]
  /\ cronDisk \in {NoStoreFile, StoredJobs}
  /\ cronCalls = 0
  /\ onJobCalls = [id \in JobIds |-> [timer |-> 0, run |-> 0, threw |-> 0]]
  /\ listed = NoListing
  /\ cronReturned = NoReturn

NextCron ==
  \/ tick
  \/ cronStart
  \/ cronStop
  \/ addJob
  \/ removeJob
  \/ enableJob
  \/ runJob
  \/ onTimer
  \/ jobSettles
  \/ listJobs
  \/ status

SpecCron == InitCron /\ [][NextCron]_vars

\* the service over the store file of an earlier run, its jobs run by the
\* timer and by runJob
InitSchedule ==
  /\ InitCron
  /\ cronDisk = StoredJobs

NextSchedule ==
  \/ tick
  \/ cronStart
  \/ runJob
  \/ onTimer
  \/ jobSettles

SpecSchedule == InitSchedule /\ [][NextSchedule]_vars

\* the jobs of the store file listed while the timer runs them and enableJob
\* disables or enables them
NextList ==
  \/ tick
  \/ cronStart
  \/ enableJob
  \/ onTimer
  \/ jobSettles
  \/ listJobs

SpecList == InitSchedule /\ [][NextList]_vars

\* jobs run by hand, some of them disabled or removed before
NextManual ==
  \/ tick
  \/ enableJob
  \/ removeJob
  \/ runJob
  \/ jobSettles

SpecManual == InitCron /\ [][NextManual]_vars

\* ---------------------------------------- the cron service in the gateway
\* the session key the gateway gives the turn of a job: `cron:${job.id}`
cronSessionKey(id) == <<"cron", ":", ToString(id)>>

GatewayKeys == { cronSessionKey(id) : id \in JobIds }

\* the calls of onJob so far
RECURSIVE onJobTotal(_, _)
onJobTotal(calls, ids) ==
  IF ids = {} THEN 0
  ELSE LET id == CHOOSE i \in ids : TRUE IN
       calls[id].timer + calls[id].run + onJobTotal(calls, ids \ {id})

\* cronService.onJob(job) of the gateway, after the await of connectMcp in
\* processDirect: processMessage begins, with the job's message, the session
\* key cron:<id>, and the payload's channel and chat or "cli" and "direct"
gatewayOnJob ==
  /\ turns["direct"].pc = "idle"
  /\ nDirect < onJobTotal(onJobCalls, JobIds)
  /\ \E t \in Threads :
       /\ cronThreads[t].pc = "awaiting"
       /\ LET job == cronJobs[cronThreads[t].job]
              channel == IF job.payload.channel = Null THEN "cli"
                         ELSE job.payload.channel
              chatId == IF job.payload.to = NoChat THEN <<"direct">>
                        ELSE job.payload.to IN
          \E R \in {begin("direct",
                          [id |-> 100 + nDirect, channel |-> channel,
                           senderId |-> "user", chatId |-> chatId,
                           content |-> job.payload.message],
                          cronSessionKey(job.id))} :
            apply("direct", R)
  /\ nDirect' = nDirect + 1
  /\ UNCHANGED <<inboundQueue, inboundWaiters, outboundSubscribers, busRunning,
                 consumers, activeConsumers, dispatcher, pubIn, returned, invoked, threw,
                 agentRunning, maxIterations, memoryWindow, historyMd, memoryMd,
                 providerAnswers, subAnswers>>
  /\ UNCHANGED <<subVars, sideVars>>

\* processDirect has returned and onJob returns result.content: executeJob
\* goes on after its await, the value onJob returned is not looked at
gatewayJobSettles ==
  /\ turns["direct"].pc = "idle"
  /\ nDirect = onJobTotal(onJobCalls, JobIds)
  /\ jobSettles
  /\ \A id \in JobIds : onJobCalls'[id].threw = onJobCalls[id].threw

\* the gateway over the store file of an earlier run: the timer runs the
\* jobs, the provider answers every turn
InitGateway ==
  /\ BusInit
  /\ activeConsumers = {}
  /\ sessObjs = [i \in SessIds |-> NoSession]
  /\ sessCache = [k \in GatewayKeys |-> 0]
  /\ sessDisk = [f \in { safeFilename(k) : k \in GatewayKeys } |-> NoFile]
  /\ AgentStart
  /\ maxIterations = MaxIterations
  /\ providerAnswers = Responses
  /\ subAnswers = SubResponses
  /\ ToolsIdle
  /\ HeartbeatIdle
  /\ clock = 1
  /\ cronRunning = FALSE
  /\ cronStore = NoStore
  /\ cronJobs = [id \in JobIds |-> NoJob]
  /\ cronTimer = NoTimer
  /\ cronThreads = [t \in Threads |-> IdleThread]
  /\ cronDisk = StoredJobs
  /\ cronCalls = 0
  /\ onJobCalls = [id \in JobIds |-> [timer |-> 0, run |-> 0, threw |-> 0]]
  /\ listed = NoListing
  /\ cronReturned = NoReturn

NextGateway ==
  \/ tick
  \/ cronStart
  \/ onTimer
  \/ gatewayOnJob
  \/ chatAnswers
  \/ toolSettles
  \/ gatewayJobSettles

SpecGateway == InitGateway /\ [][NextGateway]_vars

\* -------------------------------------- the heartbeat service on its own
\* a service just constructed, with or without a handler, over any file
InitHeartbeat ==
  /\ RestIdle
  /\ ToolsIdle
  /\ CronIdle
  /\ hbEnabled \in BOOLEAN
  /\ hbHandler \in BOOLEAN
  /\ hbRunning = FALSE
  /\ hbTimer = 0
  /\ hbTimeouts = {}
  /\ hbAwaiting = 0
  /\ hbFile \in HeartbeatFiles
  /\ hbCalls = 0
  /\ hbLast = ""

NextHeartbeat ==
  \/ tick
  \/ heartbeatStart
  \/ heartbeatStop
  \/ heartbeatTick
  \/ heartbeatSettles
  \/ heartbeatFileChanges

SpecHeartbeat == InitHeartbeat /\ [][NextHeartbeat]_vars

\* the event loop runs an expired timeout, and onJob settles
SpecCronFair == SpecCron /\ WF_vars(onTimer) /\ WF_vars(jobSettles)

\* ------------------------------------------------ bus-only specifications
InitInbound ==
  /\ BusInit
  /\ AgentInit
  /\ maxIterations = MaxIterations
  /\ providerAnswers = FewResponses
  /\ subAnswers = SubResponses
  /\ SideIdle
  /\ activeConsumers \in {{"c1"}, {"c1", "c2"}}

NextInbound ==
  \/ publishInbound
  \/ consumeInbound
  \/ consumeTimeout
  \/ consumeReturn

SpecInbound == InitInbound /\ [][NextInbound]_vars

InitOutbound ==
  /\ BusInit
  /\ AgentInit
  /\ maxIterations = MaxIterations
  /\ providerAnswers = FewResponses
  /\ subAnswers = SubResponses
  /\ SideIdle
  /\ activeConsumers = {}

NextOutbound ==
  \/ publishOutbound
  \/ subscribeOutbound
  \/ dispatchOutbound
  \/ dispatchNext
  \/ dispatchWake
  \/ dispatchHandlerSettles
  \/ busStop

SpecOutbound == InitOutbound /\ [][NextOutbound]_vars

\* ---------------------------------------------------------------- claims
\* ids of the inbound events a consumer holds in a resolved, not yet
\* received promise
CountIn(s, x) == Cardinality({ i \in 1..Len(s) : s[i] = x })

ReturnedMsgs == [i \in 1..Len(returned) |-> returned[i][2]]

HeldBy(c) == IF consumers[c].pc = "resolved" THEN <<consumers[c].msg>> ELSE <<>>

\* C1: every event passed to publishInbound is at any moment in exactly one
\* place - returned by one consumeInbound call, held in one settled promise,
\* or still queued - so it is never lost and never returned twice; with a
\* single consumer the events come back in publication order.
C1_ExactlyOnceFifo ==
  /\ \A i \in 1..Len(pubIn) :
        CountIn(ReturnedMsgs, pubIn[i])
          + Cardinality({ c \in Consumers : HeldBy(c) = <<pubIn[i]>> })
          + CountIn(inboundQueue, pubIn[i]) = 1
  /\ Len(returned) <= Len(pubIn)
  /\ activeConsumers = {"c1"} =>
        ReturnedMsgs \o HeldBy("c1") \o inboundQueue = pubIn

\* a consumer timed out, waited again and was then handed an event, while a
\* second consumer received one as well
C1_Witness ==
  /\ activeConsumers = {"c1", "c2"}
  /\ Len(returned) = MaxInbound
  /\ \E i, j \in 1..Len(returned) : returned[i][1] # returned[j][1]

\* the events, by publication number, that handler h was invoked with, in
\* the order of the invocations
EventsOf(h) ==
  LET picked == SelectSeq(invoked, LAMBDA r : r[1] = h) IN
  [i \in 1..Len(picked) |-> picked[i][2]]

\* the handlers invoked for the event with publication number id, in order
HandlersIn(log, id) ==
  LET picked == SelectSeq(log, LAMBDA r : r[2] = id) IN
  [i \in 1..Len(picked) |-> picked[i][1]]

HandlersFor(id) == HandlersIn(invoked, id)

ChannelOfHandler(h) == CHOOSE ch \in Channels : h \in Range(outboundSubscribers[ch])

\* C2: a subscriber sees the events of its channel in publication order: it
\* is never invoked with an event published before one it was already
\* invoked with.
C2_ChannelOrder ==
  \A h \in Registered :
    LET es == EventsOf(h) IN
      /\ \A i \in 1..Len(es) : pubOut[es[i]].channel = ChannelOfHandler(h)
      /\ \A i, j \in 1..Len(es) : i < j => es[i] < es[j]

\* one subscriber has been invoked with two events of its channel
C2_Witness ==
  \E h \in Registered : Len(EventsOf(h)) >= 2

\* C3: when the dispatcher is done with an event, the handlers it invoked
\* for it are exactly the channel's subscriber list, each once and in
\* registration order - whether or not one of them threw; and while it is
\* still at handler number idx, it has invoked exactly the first idx.
C3_AllHandlersOnce ==
  [][ /\ (dispatcher.pc = "await" /\ dispatcher'.pc = "top" =>
            HandlersIn(invoked', dispatcher.msg.id)
              = outboundSubscribers[dispatcher.msg.channel])
      /\ (dispatcher'.pc = "await" =>
            HandlersIn(invoked', dispatcher'.msg.id) =
              SubSeq(outboundSubscribers'[dispatcher'.msg.channel], 1, dispatcher'.idx))
    ]_vars

\* a handler threw for an event, a later handler was still invoked for the
\* same event, and a later event was dispatched to the handler that threw
C3_Witness ==
  \E r \in threw :
    /\ \E k \in 1..Len(HandlersFor(r[2])) :
          /\ HandlersFor(r[2])[k] = r[1]
          /\ k < Len(HandlersFor(r[2]))
    /\ \E e \in Range(EventsOf(r[1])) : e > r[2]

Last(s) == s[Len(s)]

InProgress == { t \in Turns : turns[t].pc # "idle" }

\* C4: message processing is strictly sequential - at most one
\* processMessage invocation is in progress at any time, whether it was
\* started by the run loop or by processDirect.
C4_OneTurnAtATime == Cardinality(InProgress) <= 1

\* turn t starts a message tool call in this step (tools.execute appended
\* "message" to its toolsUsed) and the tool published
MessageToolRuns(t) ==
  /\ Len(turns'[t].toolsUsed) > Len(turns[t].toolsUsed)
  /\ Last(turns'[t].toolsUsed) = "message"
  /\ turns'[t].result = "Message sent"

\* C5: an OutboundEvent the message tool publishes without channel/chatId
\* arguments is addressed to the channel and chat of the event whose turn
\* issued the tool call (for a system event: its origin channel and chat).
C5_MessageToolContext ==
  [][ \A t \in Turns :
        MessageToolRuns(t) =>
          /\ Len(pubOut') = Len(pubOut) + 1
          /\ Last(pubOut').channel = turns'[t].origin.channel
          /\ Last(pubOut').chatId = turns'[t].origin.chatId
    ]_vars

\* C6: whatever the provider answers, one run of the agent tool loop calls
\* provider.chat at most maxIterations times and a sub-agent's loop at most
\* 15 times; a loop whose last allowed call asked for tools returns once
\* those tools have run.
C6_BoundedChats ==
  [][ /\ \A t \in Turns :
           /\ turns'[t].chats <= maxIterations
           /\ (turns[t].pc = "tool" /\ turns[t].j = Len(turns[t].calls)
                 /\ turns[t].chats = maxIterations /\ turns'[t] # turns[t]
                 => turns'[t].pc = "idle")
      /\ \A id \in SubIds :
           /\ subTasks'[id].chats <= SubMaxIterations
           /\ (subTasks[id].pc = "tool" /\ subTasks[id].j = Len(subTasks[id].calls)
                 /\ subTasks[id].chats = SubMaxIterations /\ subTasks'[id] # subTasks[id]
                 => subTasks'[id].pc = "done")
    ]_vars

\* an agent turn under a ceiling of at least two and a sub-agent have each
\* made their last allowed provider.chat call and were asked for a tool again
C6_Witness ==
  /\ \E t \in Turns :
       turns[t].pc = "tool" /\ turns[t].chats = maxIterations /\ maxIterations >= 2
  /\ \E id \in SubIds :
       subTasks[id].pc = "tool" /\ subTasks[id].chats = SubMaxIterations

HasToolCalls(m) == "tool_calls" \in DOMAIN m

\* in the list ms, message number i carries k tool calls and is followed by
\* k tool messages with the ids of the calls, in order, then the reflection
AnsweredAt(ms, i) ==
  LET k == Len(ms[i].tool_calls) IN
    /\ i + k + 1 <= Len(ms)
    /\ \A n \in 1..k :
         /\ ms[i + n].role = "tool"
         /\ ms[i + n].tool_call_id = ms[i].tool_calls[n]
    /\ ms[i + k + 1] = [role |-> "user", content |-> Reflection]

\* message number i of ms, a tool message, is one of the answers to the
\* nearest assistant message with tool calls before it
BelongsAt(ms, i) ==
  \E a \in 1..(i - 1) :
    /\ HasToolCalls(ms[a])
    /\ i - a <= Len(ms[a].tool_calls)

\* C7: in every message list the tool loop sends to the LLM, an assistant
\* message with k tool calls is followed at once by exactly k tool messages
\* carrying the ids of those calls in the same order and then by one
\* reflection message; a reflection message never stands between two tool
\* results, and no tool message stands outside such a group.
C7_ToolResultsThenReflection ==
  \A t \in Turns :
    turns[t].pc = "chat" =>
      LET ms == turns[t].messages IN
      \A i \in 1..Len(ms) :
        /\ HasToolCalls(ms[i]) => AnsweredAt(ms, i)
        /\ ms[i].role = "tool" => BelongsAt(ms, i)
        /\ ms[i] = [role |-> "user", content |-> Reflection] =>
             i > 1 /\ ms[i - 1].role = "tool"
                   /\ (i < Len(ms) => ms[i + 1].role # "tool")

\* the list sent to the LLM holds an assistant message with two tool calls
C7_Witness ==
  \E t \in Turns :
    /\ turns[t].pc = "chat"
    /\ \E i \in 1..Len(turns[t].messages) :
         HasToolCalls(turns[t].messages[i]) /\ Len(turns[t].messages[i].tool_calls) = 2

\* the transcript stored for session key k
Stored(disk, k) ==
  IF disk[safeFilename(k)].exists THEN load(disk, k).messages ELSE <<>>

\* this step ends turn t with a reply (finish saved the session)
Replies(t) ==
  /\ turns[t].pc # "idle"
  /\ turns'[t].pc = "idle"
  /\ sessDisk' # sessDisk

\* the run loop receives an event with this command in this step
Receives(cmd) ==
  /\ returned' # returned
  /\ consumers["loop"].msg.channel # "system"
  /\ trimLower(consumers["loop"].msg.content) = cmd

\* C8: when the processing of a message other than /new and /help is
\* over, the transcript of its session is exactly two entries longer than
\* when the processing began, a user entry then an assistant entry; after
\* /new the transcript is empty and after /help it is unchanged.
C8_TranscriptGrowsByTwo ==
  [][ /\ \A t \in Turns :
           Replies(t) =>
             LET after == Stored(sessDisk', sessObjs[turns[t].sid].key) IN
               /\ Len(after) = turns[t].before + 2
               /\ after[Len(after) - 1].role = "user"
               /\ after[Len(after)].role = "assistant"
      /\ Receives("/new") =>
           Stored(sessDisk', sessionKeyOf(consumers["loop"].msg.channel,
                                          consumers["loop"].msg.chatId)) = <<>>
      /\ Receives("/help") => sessDisk' = sessDisk
    ]_vars

\* this step ends turn t because the ceiling was reached: its last allowed
\* provider.chat call asked for tools and the last of them returned
CeilingEnds(t) == turns[t].pc = "tool" /\ turns'[t].pc = "idle"

\* the reply of turn t in this step: the stored assistant entry, and for a
\* turn of the run loop the published event as well
ReplyIs(t, content) ==
  /\ Last(Stored(sessDisk', sessObjs[turns[t].sid].key)).content = content
  /\ t = "loop" => Len(pubOut') = Len(pubOut) + 1 /\ Last(pubOut').content = content

\* C9 as stated: whenever the tool loop ends at the ceiling without a final
\* text, the reply is "I've completed processing but have no response to give."
C9_Original ==
  [][ \A t \in Turns : CeilingEnds(t) => ReplyIs(t, Fallback) ]_vars

\* C9: whenever the tool loop ends at the ceiling without a final text, the
\* reply is "I've completed processing but have no response to give." for an
\* event of a chat channel and "Background task completed." for an event of
\* the system channel.
C9_FallbackByKind ==
  [][ \A t \in Turns :
        CeilingEnds(t) =>
          ReplyIs(t, IF turns[t].msg.channel = "system" THEN SystemFallback ELSE Fallback)
    ]_vars

\* both kinds of event have ended at the ceiling and were replied to
C9_Witness ==
  /\ \E i \in 1..Len(pubOut) : pubOut[i].content = Fallback
  /\ \E i \in 1..Len(pubOut) : pubOut[i].content = SystemFallback

Apology == ApologyPrefix \o ProviderError

\* C10: when processing an inbound event throws, the run loop publishes one
\* apology carrying the exception message to the event's channel and chat,
\* loses nothing that is queued and is back at the top of its loop, still
\* running; run() returns only when stop() has been called.
C10_ApologyAndContinue ==
  [][ /\ (turns["loop"].pc = "chat" /\ turns'["loop"].pc = "idle"
            /\ sessDisk' = sessDisk) =>
           /\ Len(pubOut') = Len(pubOut) + 1
           /\ Last(pubOut') = [id |-> Len(pubOut) + 1,
                               channel |-> turns["loop"].msg.channel,
                               chatId |-> turns["loop"].msg.chatId,
                               content |-> Apology]
           /\ runPc' = "top"
           /\ agentRunning' = agentRunning
           /\ inboundQueue' = inboundQueue
      /\ (runPc' = "returned" => ~agentRunning')
    ]_vars

\* an apology was published and an event received after it was answered
C10_Witness ==
  \E i, j \in 1..Len(pubOut) :
    /\ i < j
    /\ pubOut[i].content = Apology
    /\ pubOut[j].content = "hi"

\* C11: every failure while processing an inbound event is reported on a
\* channel where the user is reachable - for a failing system event on the
\* origin channel and chat its chatId encodes - so the agent loop never
\* publishes an OutboundEvent on channel "system".
C11_NeverToSystem ==
  \A i \in 1..Len(pubOut) :
    /\ pubOut[i].channel # "system"
    /\ pubOut[i].content = Apology => pubOut[i].channel \in Channels

\* C12: once stop() has been called on a started agent loop, run()
\* returns in the end, with no turn left unfinished and without calling
\* consumeInbound again once it is back at the top of its loop; once
\* stop() has been called on the bus, a started dispatcher exits in the end
\* and shifts no further event from the outbound queue once it is back at
\* the top of its loop.
C12_StopsCooperatively ==
  /\ (runPc # "notstarted" /\ ~agentRunning) ~> (runPc = "returned")
  /\ [](runPc = "returned" => turns["loop"].pc = "idle")
  /\ [][ ~agentRunning /\ runPc = "top" => runPc' \in {"top", "returned"} ]_vars
  /\ (dispatcher.pc # "notstarted" /\ ~busRunning) ~> (dispatcher.pc = "exited")
  /\ [][ ~busRunning /\ dispatcher.pc = "top" =>
           Len(outboundQueue') >= Len(outboundQueue) /\ invoked' = invoked ]_vars

\* run() has returned after a reply was published and the dispatcher has
\* exited after it invoked a handler
C12_Witness ==
  /\ runPc = "returned"
  /\ dispatcher.pc = "exited"
  /\ Len(pubOut) >= 1
  /\ invoked # <<>>

\* the transcript getOrCreate would return for key k
TranscriptOf(objs, cache, disk, k) ==
  IF cache[k] # 0 THEN objs[cache[k]].messages ELSE Stored(disk, k)

\* C13: when an event whose trimmed, lower-cased content is /new has been
\* processed, the session file of its key holds no message records, the
\* cache entry of the key is gone, the next getOrCreate returns a session
\* with an empty transcript and lastConsolidated 0, and an archive-all
\* consolidation was started over exactly the transcript as it was before.
C13_NewSession ==
  [][ Receives("/new") =>
        LET msg == consumers["loop"].msg
            k == sessionKeyOf(msg.channel, msg.chatId)
            g == getOrCreate(sessObjs', sessCache', sessDisk', k) IN
          /\ sessDisk'[safeFilename(k)].exists
          /\ Stored(sessDisk', k) = <<>>
          /\ sessCache'[k] = 0
          /\ g.objs[g.sid].messages = <<>>
          /\ g.objs[g.sid].lastConsolidated = 0
          /\ \E c \in consol' \ consol :
               /\ c.archiveAll
               /\ c.key = k
               /\ c.old = TranscriptOf(sessObjs, sessCache, sessDisk, k)
          /\ Cardinality(consol' \ consol) = 1
    ]_vars

\* /new was processed for a session that held a user and an assistant
\* entry: its file is empty and the archive-all consolidation over the two
\* entries is in flight
C13_Witness ==
  \E c \in consol :
    /\ c.archiveAll
    /\ Len(c.old) = 2
    /\ sessDisk[safeFilename(c.key)].exists
    /\ Stored(sessDisk, c.key) = <<>>
    /\ sessCache[c.key] = 0

\* C14: a system event with chatId "{c}:{id}", split at the first colon,
\* is processed on the session with key "{c}:{id}" and with the tool context
\* of channel c and chat id; when its tool loop has ended the session ends
\* with two new entries, the user entry "[System: {senderId}] {content}" and
\* the assistant reply, and the reply is published to channel c and chat id.
C14_SystemEventToOrigin ==
  /\ originOf(<<"tg", ":", "1", ":", "2">>) = [channel |-> "tg", chatId |-> <<"1", ":", "2">>]
  /\ [][ /\ (returned' # returned /\ consumers["loop"].msg.channel = "system") =>
              LET msg == consumers["loop"].msg
                  turn == turns'["loop"] IN
                /\ turn.pc = "chat"
                /\ turn.chats = 1
                /\ <<turn.origin.channel, ":">> \o turn.origin.chatId = msg.chatId
                /\ turn.origin.channel \in Channels
                /\ sessObjs'[turn.sid].key = msg.chatId
                /\ toolContext' = turn.origin
         /\ (Replies("loop") /\ turns["loop"].msg.channel = "system") =>
              LET turn == turns["loop"]
                  after == Stored(sessDisk', turn.msg.chatId)
                  n == Len(after) IN
                /\ n >= turn.before + 2
                /\ after[n - 1].role = "user"
                /\ after[n - 1].content =
                     "[System: " \o turn.msg.senderId \o "] " \o turn.msg.content
                /\ after[n].role = "assistant"
                /\ Len(pubOut') = Len(pubOut) + 1
                /\ Last(pubOut').channel = turn.origin.channel
                /\ Last(pubOut').chatId = turn.origin.chatId
                /\ Last(pubOut').content = after[n].content
                /\ Last(pubOut').channel # "system"
       ]_vars

\* a system event was answered on the chat it came from, after a user
\* message of that chat had been answered
C14_Witness ==
  /\ Len(Stored(sessDisk, <<"tg", ":", "1">>)) = 4
  /\ Stored(sessDisk, <<"tg", ":", "1">>)[3].content = "[System: subagent] announce"
  /\ \E i \in 1..Len(pubOut) :
       /\ pubOut[i].channel = "tg"
       /\ pubOut[i].content = Stored(sessDisk, <<"tg", ":", "1">>)[4].content

\* C15: spawn returns while the sub-agent is still running and counted, and
\* has published nothing; every running sub-agent ends at some time; the
\* step that ends it publishes exactly one event on channel "system" with
\* senderId "subagent" and chatId "{originChannel}:{originChatId}", a success
\* announcement or the error announcement with the exception message, and
\* takes the task out of runningTasks; no other step of a sub-agent publishes.
Ends(id) == subTasks[id].pc \in {"chat", "tool"} /\ subTasks'[id].pc = "done"

SuccessAnnouncements ==
  { "[Subagent completed successfully] done",
    "[Subagent completed successfully] Task completed but no final response was generated." }

C15_SpawnAnnouncesOnce ==
  /\ \A id \in SubIds :
       (subTasks[id].pc \in {"chat", "tool"}) ~> (subTasks[id].pc = "done")
  /\ [][\A id \in SubIds :
          /\ (subTasks[id].pc = "none" /\ subTasks'[id].pc # "none") =>
               /\ subTasks'[id].pc = "chat"
               /\ id \in runningTasks'
               /\ pubIn' = pubIn
          /\ Ends(id) =>
               /\ Len(pubIn') = Len(pubIn) + 1
               /\ SubSeq(pubIn', 1, Len(pubIn)) = pubIn
               /\ Last(pubIn').channel = "system"
               /\ Last(pubIn').senderId = "subagent"
               /\ Last(pubIn').chatId =
                    <<subTasks[id].originChannel, ":">> \o subTasks[id].originChatId
               /\ Last(pubIn').content \in
                    IF subTasks[id].pc = "tool" THEN SuccessAnnouncements
                    ELSE SuccessAnnouncements \cup {"[Subagent failed] Error: " \o ProviderError}
               /\ id \notin runningTasks'
               /\ Cardinality(runningTasks') = Cardinality(runningTasks) - 1
          /\ (subTasks'[id] # subTasks[id] /\ ~Ends(id)) => pubIn' = pubIn
      ]_vars
  /\ [](Len(pubIn) = Cardinality({id \in SubIds : subTasks[id].pc = "done"}))
  /\ [](runningTasks = {id \in SubIds : subTasks[id].pc \in {"chat", "tool"}})

\* a sub-agent whose provider call threw has announced its failure
C15_Witness ==
  /\ subTasks[1].pc = "done"
  /\ runningTasks = {}
  /\ Len(pubIn) = 1
  /\ pubIn[1].content = "[Subagent failed] Error: boom"
  /\ pubIn[1].chatId = <<"tg", ":", "1">>

\* C16: the registry of a sub-agent holds none of message, spawn and cron;
\* a call of one of them inside a sub-agent gives the tool-not-found string;
\* a step of a sub-agent starts no other task and publishes no outbound
\* event, and the only thing it publishes inbound is its one announcement.
MainOnlyTools == {"message", "spawn", "cron"}

NotFound(name) == "Error: Tool '" \o name \o "' not found."

C16_NoMainToolsInSubagent ==
  /\ SubagentTools \cap MainOnlyTools = {}
  /\ [](\A id \in SubIds :
          /\ (subTasks[id].pc = "tool"
              /\ subTasks[id].calls[subTasks[id].j].name \in MainOnlyTools) =>
               subTasks[id].result = NotFound(subTasks[id].calls[subTasks[id].j].name)
          /\ \A i \in 1..Len(subTasks[id].messages) :
               LET m == subTasks[id].messages[i] IN
               (m.role = "tool" /\ m.name \in MainOnlyTools) => m.content = NotFound(m.name))
  /\ [][\A id \in SubIds :
          (subTasks[id].pc \in {"chat", "tool"} /\ subTasks'[id] # subTasks[id]) =>
            /\ \A other \in SubIds \ {id} : subTasks'[other] = subTasks[other]
            /\ runningTasks' \subseteq runningTasks
            /\ pubOut' = pubOut
            /\ outboundQueue' = outboundQueue
            /\ toolContext' = toolContext
            /\ pubIn' # pubIn => Ends(id) /\ Len(pubIn') = Len(pubIn) + 1
      ]_vars

\* a sub-agent has been told that spawn, message and cron do not exist
C16_Witness ==
  \E id \in SubIds :
    /\ subTasks[id].pc = "chat"
    /\ \A name \in MainOnlyTools :
         \E i \in 1..Len(subTasks[id].messages) :
           /\ subTasks[id].messages[i].role = "tool"
           /\ subTasks[id].messages[i].name = name
           /\ subTasks[id].messages[i].content = NotFound(name)

\* C20: what save writes, load reads back as the same session: the same
\* number of messages in the same order, each with the same role, content,
\* timestamp, toolsUsed and toolCallId (present or absent alike), and the
\* same lastConsolidated; and getOrCreate on a key that is not cached gives
\* exactly what load reads from the file.
MessageFields == {"role", "content", "timestamp", "toolsUsed", "toolCallId"}

SameMessage(a, b) ==
  \A f \in MessageFields :
    /\ (f \in DOMAIN a) <=> (f \in DOMAIN b)
    /\ f \in DOMAIN a => a[f] = b[f]

C20_SaveLoadRoundTrip ==
  [][\A k \in Keys :
       /\ (sessCache[k] # 0 /\ sessDisk' # sessDisk) =>
            LET session == sessObjs[sessCache[k]]
                loaded == load(sessDisk', k) IN
            /\ sessDisk'[safeFilename(k)].exists
            /\ loaded.key = session.key
            /\ loaded.lastConsolidated = session.lastConsolidated
            /\ Len(loaded.messages) = Len(session.messages)
            /\ \A i \in 1..Len(session.messages) :
                 SameMessage(loaded.messages[i], session.messages[i])
       /\ (sessCache[k] = 0 /\ sessCache'[k] # 0 /\ sessDisk[safeFilename(k)].exists) =>
            LET saved == load(sessDisk, k)
                session == sessObjs'[sessCache'[k]] IN
            /\ session.lastConsolidated = saved.lastConsolidated
            /\ Len(session.messages) = Len(saved.messages)
            /\ \A i \in 1..Len(saved.messages) :
                 SameMessage(session.messages[i], saved.messages[i])
    ]_vars

\* a session with a tool result and a reply that used tools was saved,
\* dropped from the cache and read from its file again
C20_Witness ==
  \E k \in Keys :
    /\ sessCache[k] = 1
    /\ sessDisk[safeFilename(k)].exists
    /\ sessObjs[1].lastConsolidated = 1
    /\ Len(sessObjs[1].messages) = 2
    /\ sessObjs[1].messages[1].role = "tool"
    /\ sessObjs[1].messages[1].toolCallId = "t2"
    /\ sessObjs[1].messages[1].timestamp = "09:02"
    /\ sessObjs[1].messages[2].role = "assistant"
    /\ "toolsUsed" \in DOMAIN sessObjs[1].messages[2]
    /\ sessObjs[1].messages[2].toolsUsed = <<"read_file">>

\* C17: a consolidation of a session does not get as far as its LLM call
\* while an earlier consolidation of the same session is waiting for its
\* answer, and HISTORY.md never holds two entries that summarise the same
\* message of the same transcript.
SameTranscript(e1, e2) ==
  /\ e1.key = e2.key
  /\ e1.sid # 0 /\ e2.sid # 0
  /\ ~\E i \in 1..Len(pubIn) :
        /\ trimLower(pubIn[i].content) = "/new"
        /\ pubIn[i].channel # "system"
        /\ sessionKeyOf(pubIn[i].channel, pubIn[i].chatId) = e1.key
        /\ \/ e1.by < pubIn[i].id /\ pubIn[i].id < e2.by
           \/ e2.by < pubIn[i].id /\ pubIn[i].id < e1.by

Overlap(e1, e2) == e1.lo < e2.hi /\ e2.lo < e1.hi

C17_OneConsolidationPerSession ==
  /\ [][\A c \in consol' \ consol :
          ~c.archiveAll => ~\E earlier \in consol : earlier.sid = c.sid]_vars
  /\ [](\A i, j \in 1..Len(historyMd) :
          (i < j /\ SameTranscript(historyMd[i], historyMd[j]))
            => ~Overlap(historyMd[i], historyMd[j]))

\* C18: the lastConsolidated of the session of a key, as the cache holds it
\* or else as its file holds it, never gets smaller in a step, unless the
\* step is the handling of /new.
LastConsolidatedOf(objs, cache, disk, k) ==
  IF cache[k] # 0 THEN objs[cache[k]].lastConsolidated
  ELSE IF disk[safeFilename(k)].exists THEN load(disk, k).lastConsolidated
  ELSE 0

C18_LastConsolidatedMonotone ==
  [][\A k \in Keys :
       \/ LastConsolidatedOf(sessObjs', sessCache', sessDisk', k)
            >= LastConsolidatedOf(sessObjs, sessCache, sessDisk, k)
       \/ /\ Receives("/new")
          /\ LastConsolidatedOf(sessObjs', sessCache', sessDisk', k) = 0
    ]_vars

\* C19: a consolidation whose LLM call throws, answers with nothing or with
\* no text, or with text that no repair makes JSON of, appends nothing to
\* HISTORY.md, leaves MEMORY.md as it is and does not reach the assignment of
\* lastConsolidated; the step in which a consolidation ends without an entry
\* in HISTORY.md changes no file, no session and no turn.
FailingAnswers ==
  { [throws |-> TRUE, content |-> Null],
    [throws |-> FALSE, content |-> Null],
    [throws |-> FALSE, content |-> ""],
    [throws |-> FALSE, content |-> "{:2}"] }

C19_FailedConsolidationChangesNothing ==
  /\ FailingAnswers \subseteq ConsolidationAnswers
  /\ [](\A c \in consol, answer \in FailingAnswers :
          LET e == consolidate(c, answer) IN
          e.entries = <<>> /\ e.memory = memoryMd /\ ~e.done)
  /\ [][(consol' # consol /\ consol' \subseteq consol /\ historyMd' = historyMd) =>
          /\ memoryMd' = memoryMd
          /\ sessDisk' = sessDisk
          /\ sessCache' = sessCache
          /\ \A i \in SessIds : sessObjs'[i] \in {sessObjs[i], NoSession}
          /\ \A k \in Keys :
               /\ TranscriptOf(sessObjs', sessCache', sessDisk', k)
                    = TranscriptOf(sessObjs, sessCache, sessDisk, k)
               /\ LastConsolidatedOf(sessObjs', sessCache', sessDisk', k)
                    = LastConsolidatedOf(sessObjs, sessCache, sessDisk, k)
          /\ turns' = turns
          /\ runPc' = runPc
          /\ pubOut' = pubOut
      ]_vars

\* the turn that triggered a consolidation was answered and saved, and the
\* consolidation has ended without a trace
C19_Witness ==
  \E k \in Keys :
    /\ consol = {}
    /\ historyMd = <<>>
    /\ memoryMd = ""
    /\ Len(Stored(sessDisk, k)) = StoredLen + 2
    /\ LastConsolidatedOf(sessObjs, sessCache, sessDisk, k) = 0
    /\ turns["loop"].pc = "idle"
    /\ Len(pubOut) = 1

\* C21: sessions of distinct keys are independent: the transcript that
\* getOrCreate would read from disk for a key changes only in a step that
\* saves a session of that very key.
C21_OneSessionPerKey ==
  [][\A k \in DOMAIN sessCache :
       Stored(sessDisk', k) # Stored(sessDisk, k) =>
         \E i \in SessIds :
           /\ sessObjs[i] # NoSession
           /\ sessObjs[i].key = k
           /\ sessDisk' = save(sessDisk, sessObjs[i])
    ]_vars

\* C22: ToolRegistry.execute never throws to its caller: for an unregistered
\* name it returns "Error: Tool '{name}' not found." without invoking any tool;
\* for arguments that fail the tool's schema it returns a string starting with
\* "Invalid parameters:" without invoking the tool; if the tool throws it
\* returns "Error executing {name}: {message}"; otherwise it returns the
\* tool's own result string.
C22_RegistryNeverThrows ==
  toolCall.name # "" =>
    /\ ~toolCall.threw
    /\ toolCall.name \notin DOMAIN Schemas =>
         /\ toolCall.result = <<"Error: Tool '", toolCall.name, "' not found.">>
         /\ ~toolCall.invoked
    /\ ( /\ toolCall.name \in DOMAIN Schemas
         /\ issuesOf(Schemas[toolCall.name].fields, toolCall.args) # <<>> ) =>
         /\ startsWith(toolCall.result, <<"Invalid parameters: ">>)
         /\ ~toolCall.invoked
    /\ toolCall.toolThrew =>
         startsWith(toolCall.result, <<"Error executing ", toolCall.name, ": ">>)
    /\ (toolCall.invoked /\ ~toolCall.toolThrew) =>
         toolCall.result = toolCall.toolResult

\* the number of places of s at which t occurs
Occurrences(s, t) ==
  Cardinality({ i \in 0..(Len(s) - Len(t)) : SubSeq(s, i + 1, i + Len(t)) = t })

\* the pieces of part follow one another somewhere in the result string
Contains(result, part) ==
  \E i \in 0..(Len(result) - Len(part)) :
    SubSeq(result, i + 1, i + Len(part)) = part

\* C23: edit_file modifies the file only when old_text occurs exactly once in
\* it; with zero occurrences it returns an error string and with n > 1
\* occurrences it returns a warning containing "appears n times", and in both
\* of those cases the file content is left byte-identical.
C23_EditOnlyWhenUnique ==
  [][ ( /\ toolCall' # toolCall
        /\ toolCall'.name = "edit_file"
        /\ toolCall'.invoked
        /\ resolve(toolCall'.args.path.value) \in DOMAIN files
        /\ files[resolve(toolCall'.args.path.value)].exists
        /\ ~resolvePath(toolCall'.args.path.value, restrictToWorkspace).threw ) =>
      LET path == resolve(toolCall'.args.path.value)
          n == Occurrences(files[path].content, toolCall'.args.old_text.value)
      IN  /\ files' # files => n = 1
          /\ n = 0 =>
               /\ startsWith(toolCall'.result, <<"Error: old_text not found in file. Make sure it matches exactly.">>)
               /\ files' = files
          /\ n > 1 =>
               /\ Contains(toolCall'.result, <<"appears ", ToString(n), " times">>)
               /\ files' = files
    ]_vars

\* the command names an absolute path that is not under the working directory
AbsoluteOutside(command) ==
  \E w \in Range(split(command, <<" ">>)) :
    /\ startsWith(w, <<"/">>)
    /\ ~startsWith(w, <<"/", "w", "s", "/">>)
    /\ w # <<"/", "w", "s">>

\* C24: if an exec command matches any deny pattern (or, when workspace
\* restriction is on, contains a ../ traversal or an absolute path outside the
\* working directory), exec returns a string containing "Error: Command
\* blocked by safety guard" and no shell process is started for it.
C24_GuardBlocksBeforeShell ==
  [][ ( /\ toolCall' # toolCall
        /\ toolCall'.name = "exec"
        /\ toolCall'.invoked
        /\ LET command == toolCall'.args.command.value IN
           \/ \E p \in 1..Len(DEFAULT_DENY_PATTERNS) :
                test(DEFAULT_DENY_PATTERNS[p], command)
           \/ /\ restrictToWorkspace
              /\ \/ includes(command, <<".", ".", "/">>)
                 \/ AbsoluteOutside(command) ) =>
      /\ Contains(toolCall'.result, <<"Error: Command blocked by safety guard">>)
      /\ shells' = shells
    ]_vars

\* the onTimer calls that await onJob(job id)
TimerRuns(id) ==
  { t \in Threads : /\ cronThreads[t].pc = "awaiting"
                    /\ cronThreads[t].kind = "timer"
                    /\ cronThreads[t].job = id }

\* C25: each time an enabled job becomes due while the service is running,
\* onJob is invoked for it exactly once for that due time and due jobs are
\* executed one after another: a job whose execution is still in progress is
\* never started a second time, including when addJob, removeJob, enableJob or
\* runJob re-arm the timer while that execution is awaiting onJob.
C25_DueJobRunsOnce ==
  /\ \A id \in JobIds : Cardinality(TimerRuns(id)) <= 1
  /\ Cardinality(UNION { TimerRuns(id) : id \in JobIds }) <= 1

\* job id is an enabled `at` job of the running service whose time has come
AtJobIsDue(id) ==
  /\ cronRunning
  /\ id \in Range(cronStore.jobs)
  /\ cronJobs[id].kind = "at"
  /\ cronJobs[id].enabled
  /\ clock >= cronJobs[id].atMs

Executed(id) == onJobCalls[id].timer + onJobCalls[id].run >= 1

C26_Eventually ==
  \A id \in JobIds : AtJobIsDue(id) ~> (Executed(id) \/ ~AtJobIsDue(id))

C26_AtMostOnce ==
  \A id \in JobIds : cronJobs[id].kind = "at" => onJobCalls[id].timer <= 1

\* C26: every enabled `at` job is eventually executed by the running service
\* once wall-clock time is >= its atMs, and it is executed at most once.
C26_AtJobRunsOnce == C26_Eventually /\ []C26_AtMostOnce

\* the execution of job id that thread t awaited ends in this step
Finishes(t, id) ==
  /\ cronThreads[t].pc = "awaiting"
  /\ cronThreads[t].job = id
  /\ cronJobs[id].kind = "at"
  /\ \/ cronThreads'[t].pc = "idle"
     \/ cronThreads'[t].rest # cronThreads[t].rest

\* C27: after an `at` job has been executed once (by the timer or by runJob):
\* if deleteAfterRun is true the job is absent from listJobs(true); otherwise
\* it is still listed with enabled = false, nextRunAtMs = null and lastStatus
\* recording the outcome, and it is never executed by the timer again.
C27_AtJobDoneAfterRun ==
  [][\A id \in JobIds :
       /\ \A t \in Threads : Finishes(t, id) =>
             IF cronJobs[id].deleteAfterRun
             THEN id \notin Range(cronStore'.jobs)
             ELSE /\ id \in Range(cronStore.jobs) => id \in Range(cronStore'.jobs)
                  /\ ~cronJobs'[id].enabled
                  /\ cronJobs'[id].nextRunAtMs = NoTime
                  /\ cronJobs'[id].lastStatus \in {"ok", "error"}
       /\ ( /\ cronJobs[id].kind = "at"
            /\ cronJobs[id].lastRunAtMs # NoTime
            /\ ~cronJobs[id].enabled \/ id \notin Range(cronStore.jobs) ) =>
             onJobCalls'[id].timer = onJobCalls[id].timer
    ]_vars

\* the execution of the `every` job id that thread t awaited ends in this step
EveryEnds(t, id) ==
  /\ cronThreads[t].pc = "awaiting"
  /\ cronThreads[t].job = id
  /\ cronJobs[id].kind = "every"
  /\ cronJobs[id].everyMs > 0
  /\ \/ cronThreads'[t].pc = "idle"
     \/ cronThreads'[t].rest # cronThreads[t].rest

\* C28: after any execution of an `every` job with everyMs > 0, its
\* nextRunAtMs equals the time at which the execution finished plus everyMs,
\* hence it is strictly in the future at that moment and the job is not
\* immediately due again.
C28_EveryJobNextRun ==
  [][\A id \in JobIds : \A t \in Threads :
       EveryEnds(t, id) =>
         /\ cronJobs'[id].nextRunAtMs = clock' + cronJobs[id].everyMs
         /\ cronJobs'[id].nextRunAtMs > clock'
         /\ id \notin Range(dueJobs(cronStore', cronJobs', clock'))
    ]_vars

\* an `every` job has run at the current time, by the timer, and is scheduled
\* one interval later
C28_Witness ==
  \E id \in JobIds :
    /\ cronJobs[id].kind = "every"
    /\ cronJobs[id].lastRunAtMs # NoTime
    /\ onJobCalls[id].timer >= 1
    /\ \A t \in Threads : cronThreads[t].job # id
    /\ cronJobs[id].nextRunAtMs = clock + cronJobs[id].everyMs

\* the call onJob(job id) that thread t awaited throws in this step
Throws(t, id) ==
  /\ cronThreads[t].pc = "awaiting"
  /\ cronThreads[t].job = id
  /\ cronThreads'[t] # cronThreads[t]
  /\ onJobCalls'[id].threw = onJobCalls[id].threw + 1

\* the store file holds the job list as it is
Persisted(disk, store, objs) ==
  /\ disk.exists
  /\ Len(disk.jobs) = Len(store.jobs)
  /\ \A i \in 1..Len(store.jobs) : disk.jobs[i] = objs[store.jobs[i]]

\* the timer is set for the earliest next run of an enabled job, if any
Rearmed(timer, store, objs, now) ==
  LET pending == { id \in Range(store.jobs) :
                     objs[id].enabled /\ objs[id].nextRunAtMs # NoTime }
  IN  IF pending = {} THEN ~timer.armed
      ELSE /\ timer.armed
           /\ \E id \in pending :
                /\ \A other \in pending :
                     objs[id].nextRunAtMs <= objs[other].nextRunAtMs
                /\ timer.at = IF objs[id].nextRunAtMs > now
                              THEN objs[id].nextRunAtMs ELSE now

\* C29: if onJob throws for a job, that job's lastStatus becomes "error" with
\* lastError recording the exception and lastRunAtMs set, the other jobs due
\* in the same timer firing are still executed, the store is persisted and the
\* timer is re-armed; the service keeps running.
C29_ThrowIsRecorded ==
  [][\A id \in JobIds : \A t \in Threads :
       Throws(t, id) =>
         /\ cronJobs'[id].lastStatus = "error"
         /\ cronJobs'[id].lastError = "Error: test failure"
         /\ cronJobs'[id].lastRunAtMs = cronThreads[t].startMs
         /\ cronJobs'[id].lastRunAtMs # NoTime
         /\ cronRunning' = cronRunning
         /\ IF cronThreads[t].rest # <<>>
            THEN /\ cronThreads'[t].pc = "awaiting"
                 /\ cronThreads'[t].job = Head(cronThreads[t].rest)
                 /\ cronThreads'[t].rest = Tail(cronThreads[t].rest)
                 /\ onJobCalls'[Head(cronThreads[t].rest)].timer =
                      onJobCalls[Head(cronThreads[t].rest)].timer + 1
            ELSE /\ cronThreads'[t].pc = "idle"
                 /\ Persisted(cronDisk', cronStore', cronJobs')
                 /\ cronRunning => Rearmed(cronTimer', cronStore', cronJobs', clock')
    ]_vars

\* onJob threw for the first job of a timer firing, and the firing has gone on
\* to the next due job
C29_Witness ==
  \E t \in Threads : \E id \in JobIds :
    /\ cronThreads[t].pc = "awaiting"
    /\ cronThreads[t].kind = "timer"
    /\ cronThreads[t].job # id
    /\ onJobCalls[id].threw >= 1
    /\ onJobCalls[id].run = 0
    /\ cronJobs[id].lastStatus = "error"
    /\ cronJobs[id].lastRunAtMs = cronThreads[t].startMs

\* job a may stand before job b: its next run is not later, null being last
InOrder(a, b) ==
  \/ b.nextRunAtMs = NoTime
  \/ /\ a.nextRunAtMs # NoTime
     /\ a.nextRunAtMs <= b.nextRunAtMs

\* C30: listJobs(includeDisabled) returns the jobs ordered by nextRunAtMs
\* ascending with null next-run times last; with includeDisabled = false it
\* returns exactly the enabled jobs, with includeDisabled = true exactly all
\* stored jobs.
C30_ListJobsSorted ==
  [][listed'.call # listed.call =>
       LET jobs == listed'.jobs IN
       /\ \A i \in 1..Len(jobs) : \A j \in (i + 1)..Len(jobs) :
            /\ InOrder(cronJobs'[jobs[i]], cronJobs'[jobs[j]])
            /\ jobs[i] # jobs[j]
       /\ Range(jobs) =
            IF listed'.includeDisabled THEN Range(cronStore'.jobs)
            ELSE { id \in Range(cronStore'.jobs) : cronJobs'[id].enabled }
       /\ cronJobs' = loadStore(cronStore, cronJobs, cronDisk).jobs
       /\ Range(cronStore'.jobs) =
            Range(loadStore(cronStore, cronJobs, cronDisk).store.jobs)
    ]_vars

\* listJobs(true) has returned two jobs in another order than they were added,
\* the one without a next run last
C30_Witness ==
  /\ listed.call # 0
  /\ listed.includeDisabled
  /\ Len(listed.jobs) = 2
  /\ listed.jobs[1] > listed.jobs[2]
  /\ cronJobs[listed.jobs[1]].nextRunAtMs # NoTime
  /\ cronJobs[listed.jobs[2]].nextRunAtMs = NoTime

\* runJob(id, force) is called in this step and calls onJob before its await
RunStarts(id, force) ==
  \E t \in Threads :
    /\ cronThreads[t].pc = "idle"
    /\ cronThreads'[t].pc = "awaiting"
    /\ cronThreads'[t].kind = "run"
    /\ cronThreads'[t].job = id
    /\ cronThreads'[t].force = force

\* runJob(id, force) is called in this step and returns false
RunRefused(id, force) ==
  cronReturned' = RunJobReturn(id, force, FALSE)

\* C31: runJob(id, force = false) on a disabled job returns false without
\* invoking onJob and without changing the job; runJob(id, force = true)
\* executes the job even if it is disabled and returns true; runJob for an
\* unknown id returns false without invoking onJob.
C31_RunJobForce ==
  [][LET l == loadStore(cronStore, cronJobs, cronDisk) IN
     /\ \A id \in JobIds, force \in BOOLEAN :
          (cronCalls' = cronCalls + 1
             /\ (RunStarts(id, force) \/ RunRefused(id, force))) =>
            /\ id \notin Range(l.store.jobs) =>
                 RunRefused(id, force) /\ onJobCalls' = onJobCalls
            /\ (id \in Range(l.store.jobs) /\ ~l.jobs[id].enabled /\ ~force) =>
                 /\ RunRefused(id, force)
                 /\ onJobCalls' = onJobCalls
                 /\ cronJobs' = l.jobs
                 /\ cronStore' = l.store
            /\ (id \in Range(l.store.jobs) /\ force) =>
                 /\ RunStarts(id, force)
                 /\ onJobCalls'[id].run = onJobCalls[id].run + 1
     /\ \A t \in Threads :
          (cronThreads[t].pc = "awaiting" /\ cronThreads[t].kind = "run"
             /\ cronThreads'[t].pc = "idle") =>
            cronReturned' = RunJobReturn(cronThreads[t].job,
                                         cronThreads[t].force, TRUE)
    ]_vars

\* a forced run of a disabled `every` job has returned true, onJob having been
\* called for it
C31_Witness ==
  /\ cronReturned.op = "runJob"
  /\ cronReturned.value
  /\ cronReturned.force
  /\ cronJobs[cronReturned.jobId].kind = "every"
  /\ ~cronJobs[cronReturned.jobId].enabled
  /\ onJobCalls[cronReturned.jobId].run = 1

\* while the cron service is stopped no timeout is pending
CronTimerCancelled == ~cronRunning => ~cronTimer.armed

\* while the cron service is stopped onTimer does not call onJob
CronQuietWhenStopped ==
  ~cronRunning => \A id \in JobIds : onJobCalls'[id].timer = onJobCalls[id].timer

\* while the heartbeat service is stopped no timeout is pending
HeartbeatTimerCancelled == ~hbRunning => hbTimeouts = {}

\* while the heartbeat service is stopped tick does not call onHeartbeat
HeartbeatQuietWhenStopped == ~hbRunning => hbAwaiting' <= hbAwaiting

\* C32: after CronService.stop() (respectively HeartbeatService.stop()) has
\* returned, no timer is pending and none is armed again until start() is
\* called, whatever completes or is called meanwhile, so no timer-driven onJob
\* or onHeartbeat invocation begins after stop().
C32_StopCancelsTimers ==
  /\ [](CronTimerCancelled /\ HeartbeatTimerCancelled)
  /\ [][CronQuietWhenStopped /\ HeartbeatQuietWhenStopped]_vars

\* the characters i..j of s are a line of s
IsLine(s, i, j) ==
  /\ i = 1 \/ s[i - 1] = "\n"
  /\ j = Len(s) \/ s[j + 1] = "\n"
  /\ \A k \in i..j : s[k] # "\n"

\* the line begins, after its leading white space, with the word w
BeginsWith(line, w) ==
  \E k \in 1..Len(line) :
    /\ \A h \in 1..(k - 1) : line[h] \in Space
    /\ line[k] \notin Space
    /\ k + Len(w) - 1 <= Len(line)
    /\ SubSeq(line, k, k + Len(w) - 1) = w

\* the file exists and has a line that is neither blank nor a header nor a
\* comment, or a checkbox line
Actionable(file) ==
  /\ file.exists
  /\ \E i \in 1..Len(file.content) : \E j \in i..Len(file.content) :
       /\ IsLine(file.content, i, j)
       /\ LET line == SubSeq(file.content, i, j) IN
          \/ /\ \E k \in 1..Len(line) : line[k] \notin Space
             /\ ~BeginsWith(line, <<"#">>)
             /\ ~BeginsWith(line, <<"<", "!", "-", "-">>)
          \/ BeginsWith(line, <<"-", " ", "[", " ", "]">>)
          \/ BeginsWith(line, <<"-", " ", "[", "x", "]">>)

\* a timeout of the running service expires in this step
HeartbeatTicks ==
  /\ hbRunning
  /\ hbCalls' = hbCalls
  /\ \E to \in hbTimeouts : to \notin hbTimeouts'

\* C33: on a heartbeat tick the handler is invoked if and only if HEARTBEAT.md
\* exists and contains at least one line that is neither blank nor starting
\* with # nor starting with <!--, or contains a checkbox line; a missing file
\* or a file of only blank, header and comment lines never invokes the handler.
C33_HandlerIffActionable ==
  [][(HeartbeatTicks /\ hbHandler) =>
       ((hbAwaiting' = hbAwaiting + 1) <=> Actionable(hbFile))]_vars

\* the handler was invoked for the file of a header, a blank line and a checkbox
C33_Witness ==
  /\ hbLast = "invoked"
  /\ hbAwaiting = 1
  /\ hbFile = [exists |-> TRUE,
               content |-> <<"#", " ", "T", "\n", "\n", "-", " ", "[", " ", "]",
                             " ", "X", "\n">>]

\* a tick of the running service ends in this step: it skips, or its handler
\* settles
HeartbeatTickEnds ==
  \/ HeartbeatTicks /\ hbAwaiting' = hbAwaiting
  \/ hbAwaiting' = hbAwaiting - 1

\* C36: while the heartbeat service is started and enabled, after every tick,
\* whether it skipped, its handler returned or its handler threw, exactly one
\* next tick is scheduled intervalS later, so there is never more than one
\* pending heartbeat timer and a handler invocation never overlaps the next
\* tick.
C36_OneTimerPending ==
  /\ [][(HeartbeatTickEnds /\ hbRunning /\ hbRunning') =>
          \E id \in 1..(MaxHbCalls + MaxTime + 2) :
            hbTimeouts' = {[id |-> id, at |-> clock + IntervalS]}]_vars
  /\ [](Cardinality(hbTimeouts) <= 1)
  /\ [](hbAwaiting <= 1)
  /\ [](hbAwaiting > 0 => hbTimeouts = {})

\* the handler has thrown and the next tick is pending
C36_Witness ==
  /\ hbRunning
  /\ hbLast = "threw"
  /\ Cardinality(hbTimeouts) = 1

\* C37: in every reachable cron store state, after any sequence of addJob,
\* enableJob, runJob (with or without force), timer firings and start(), every
\* disabled job has nextRunAtMs = null.
C37_DisabledHasNoNextRun ==
  \A id \in Range(cronStore.jobs) :
    ~cronJobs[id].enabled => cronJobs[id].nextRunAtMs = NoTime

\* removeJob(id) has returned true and the job has not been added again: only
\* removeJob takes a job without deleteAfterRun out of the list
RemovedByCall(id) ==
  /\ cronJobs[id] # NoJob
  /\ ~cronJobs[id].deleteAfterRun
  /\ id \notin Range(cronStore.jobs)

\* enableJob(id, false) has returned and the job has not been enabled again:
\* an execution disables `at` jobs only
DisabledByCall(id) ==
  /\ id \in Range(cronStore.jobs)
  /\ ~cronJobs[id].enabled
  /\ cronJobs[id].kind # "at" \/ cronJobs[id].lastRunAtMs = NoTime

\* C38: after removeJob(id) has returned true, or enableJob(id, false) has
\* returned, the timer path never invokes onJob for that job (until it is
\* re-enabled), also when a timer firing that had collected the job as due is
\* still executing an earlier job.
C38_NoRunAfterRemoval ==
  [][\A id \in JobIds :
       (RemovedByCall(id) \/ DisabledByCall(id)) =>
         onJobCalls'[id].timer = onJobCalls[id].timer]_vars

\* listJobs or status is called in this step
Queried == listed' # listed \/ cronReturned'.op = "status"

\* C40: listJobs and status are pure queries: calling them with any arguments
\* changes neither the membership, the per-job fields nor the order of the
\* in-memory job list, and therefore does not change what the next saveStore
\* writes.
C40_QueriesArePure ==
  [][Queried =>
       LET l == loadStore(cronStore, cronJobs, cronDisk) IN
       /\ cronStore'.jobs = l.store.jobs
       /\ cronJobs' = l.jobs
       /\ saveStore(cronStore', cronJobs', cronDisk')
            = saveStore(l.store, l.jobs, cronDisk)]_vars

\* the incremental consolidation c ends in this step with an entry in
\* HISTORY.md, and its session object is still in use
ConsolidationSucceeds(c) ==
  /\ c \in consol
  /\ c \notin consol'
  /\ ~c.archiveAll
  /\ Len(historyMd') = Len(historyMd) + 1
  /\ sessObjs'[c.sid] # NoSession

\* C35: after a successful incremental consolidation, lastConsolidated equals
\* the end index of the slice that was sent to the LLM for summarisation, also
\* when messages were appended to the session while the LLM call was in
\* flight; so successive successful consolidations cover contiguous slices
\* and every message below lastConsolidated has been in some consolidation.
C35_PointerIsSliceEnd ==
  [][\A c \in consol :
       ConsolidationSucceeds(c) => sessObjs'[c.sid].lastConsolidated = c.hi]_vars

\* lastConsolidated of the session points into its transcript
PointerInside(session) ==
  /\ 0 <= session.lastConsolidated
  /\ session.lastConsolidated <= Len(session.messages)

\* C39: for every session that is held in the session cache or written to
\* disk, 0 <= lastConsolidated <= |transcript| holds at all times, also when
\* /new or further messages for that session are processed while a
\* consolidation of it is still in flight.
C39_PointerInsideTranscript ==
  \A k \in Keys :
    /\ sessCache[k] # 0 => PointerInside(sessObjs[sessCache[k]])
    /\ sessDisk[safeFilename(k)].exists => PointerInside(load(sessDisk, k))

\* the job's payload names a chat for the answer
Delivers(job) ==
  job.payload.deliver /\ job.payload.channel # Null /\ job.payload.to # NoChat

\* the execution of the job of thread t ends in this step
ExecutionEnds(t) ==
  cronThreads[t].pc = "awaiting" /\ cronThreads'[t] # cronThreads[t]

\* the answer of the latest turn of a session: its last message
LastAnswer(session) == session.messages[Len(session.messages)].content

\* the events published have one with the answer for the job's chat
Delivered(job, events, cache, objs) ==
  /\ cache[cronSessionKey(job.id)] # 0
  /\ \E i \in 1..Len(events) :
       /\ events[i].channel = job.payload.channel
       /\ events[i].chatId = job.payload.to
       /\ events[i].content = LastAnswer(objs[cache[cronSessionKey(job.id)]])

\* C34: when the gateway has executed a job whose payload has deliver = true,
\* a channel and a chat id, the agent's response to the job's message has been
\* published as an outbound event addressed to that channel and chat
C34_ResponseDelivered ==
  [][\A t \in Threads :
       (ExecutionEnds(t) /\ Delivers(cronJobs[cronThreads[t].job]))
         => Delivered(cronJobs[cronThreads[t].job], pubOut', sessCache',
                      sessObjs')]_vars

====
